---- MODULE Spec2Model ----
(***************************************************************************)
(* Little Elf side panel (src/sidepanel/sidepanel.js) and the popup's      *)
(* "clear page data" (popup.js): page-session lifecycle, streamed chat     *)
(* exchange and the retrying request helper, over chrome.storage.local;    *)
(* the background service worker (src/background/background.js) and the    *)
(* content script (src/content/content.js): the extracted-content store,   *)
(* the enabled flag and its badge, the two extractor operations.           *)
(*                                                                         *)
(* Strings are sequences: a URL or storage key is a sequence of UTF-16     *)
(* code units, a message text is a sequence of tokens.  Every await of the *)
(* source is a yield point: an async function is an activation record      *)
(* whose pc names the await it is suspended at, and one action resumes it. *)
(***************************************************************************)
EXTENDS Integers, Sequences, FiniteSets, TLC

VARIABLES
    storSession,    \* chrome.storage.local: session_<key>
    storMessages,   \* chrome.storage.local: messages_<key>
    storKey,        \* chrome.storage.local: openaiKey
    activeUrl,      \* URL of the active tab of the current window
    panel,          \* "closed" | "loading" (init awaits loadSettings) | "open"
    state,          \* the side panel's state object
    status,         \* class of elements.statusIndicator
    setupHidden,    \* elements.setupScreen carries class hidden
    input,          \* elements.messageInput.value
    domStreaming,   \* number of attached elements of class "message assistant streaming"
    inits,          \* activations of initializeForCurrentPage
    sends,          \* activations of sendMessage
    api,            \* the activation of apiRequest observed on its own
    nextId,         \* backend: next identifier it hands out
    cmds,           \* activations of refreshContext, clearConversation, resetAllData
    events,         \* history: number of user and browser events so far
    reopened        \* history, kept while nothing but init() has run since the panel
                    \* opened: what storage held for the active page then, and the
                    \* backend endpoints requested since; afterReset:
                    \* the last thing the user did in the panel's life
                    \* before was "reset all data"; refreshed: the page
                    \* whose keys refreshContext removed, kept while no
                    \* event has followed, with the session removed and the
                    \* endpoints requested since

\* The background service worker (src/background/background.js) and the
\* content script (src/content/content.js)
VARIABLES
    extractedContent,   \* chrome.storage.local: extractedContent, its entries in key order
    elfEnabled,         \* chrome.storage.local: elfEnabled, "undefined" | "true" | "false"
    extensionState,     \* the worker's extensionState object
    badge,              \* text of the action's badge
    handlers,           \* activations of the worker's async functions
    scripts,            \* activations of the content script's runExtraction
    now,                \* the clock new Date() reads
    seen,               \* history: restart: what elfEnabled held when the worker last
                        \* started, kept while no setEnabled and no install event has
                        \* followed; answer: the last answer to GET_STATE since the
                        \* worker started or one of these events came
    reply               \* history: the last answer of the content script to
                        \* TRIGGER_EXTRACTION or GET_PAGE_CONTENT

extension == <<extractedContent, elfEnabled, extensionState, badge, handlers,
               scripts, now, seen, reply>>

\* The utility functions observed on their own: hashString of the panel and
\* of the popup, extractPageData of the content script
VARIABLES
    hashed,             \* a URL and the key each of the two hashString made of it
    document,           \* the page the content script sees: its text, its image
                        \* alts, its code blocks
    pageData,           \* what extractPageData returned for it
    observer            \* observePageChanges of the content script of one tab:
                        \* debounceTimer, the timers pending, the messages sent

utilities == <<hashed, document, pageData, observer>>

vars == <<storSession, storMessages, storKey, activeUrl, panel, state, status,
          setupHidden, input, domStreaming, inits, sends, api, nextId,
          cmds, events, reopened, extractedContent, elfEnabled, extensionState,
          badge, handlers, scripts, now, seen, reply, hashed, document, pageData,
          observer>>

----------------------------------------------------------------------------
(* Bounds *)

MaxEvents == 2      \* user and browser events in one behaviour
MaxReads == 2       \* reader.read() results that carry data, per stream

----------------------------------------------------------------------------
(* Strings *)

\* null, undefined and the empty string alike: a falsy value
Null == <<>>

\* "chrome://"
ChromePrefix == <<99, 104, 114, 111, 109, 101, 58, 47, 47>>

PageA == <<97>>                       \* "a"
PageB == <<98>>                       \* "b"
Internal == ChromePrefix \o <<120>>   \* "chrome://x"

PageUrls == {PageA, PageB}
AllUrls == PageUrls \cup {Internal}

startsWith(s, p) == Len(s) >= Len(p) /\ SubSeq(s, 1, Len(p)) = p

----------------------------------------------------------------------------
(* hashString: 32-bit arithmetic on 16-bit halves, so that no intermediate  *)
(* value leaves the 32-bit range.                                          *)

Half == 65536

Lo16(h) == h % Half
Hi16(h) == (h \div Half) % Half

\* ToInt32 of the two halves (what hash & hash yields)
Int32(hi, lo) == IF hi >= 32768 THEN (hi - Half) * Half + lo ELSE hi * Half + lo

\* hash << 5
Shl5(h) ==
    LET lo == Lo16(h) * 32
        hi == Hi16(h) * 32 + (lo \div Half)
    IN Int32(hi % Half, lo % Half)

\* a - b, wrapped to 32 bits
Sub32(a, b) ==
    LET lo == Lo16(a) - Lo16(b)
        borrow == IF lo < 0 THEN 1 ELSE 0
        hi == Hi16(a) - Hi16(b) - borrow
    IN Int32(hi % Half, lo % Half)

\* a + b, wrapped to 32 bits
Add32(a, b) ==
    LET lo == Lo16(a) + Lo16(b)
        hi == Hi16(a) + Hi16(b) + (lo \div Half)
    IN Int32(hi % Half, lo % Half)

RECURSIVE hashLoop(_, _, _)
hashLoop(str, i, hash) ==
    IF i > Len(str) THEN hash
    ELSE hashLoop(str, i + 1, Add32(Sub32(Shl5(hash), hash), str[i]))

\* Number.prototype.toString(36): digits 0..35, most significant first;
\* a negative number is rendered as "-" (code unit 45) and its magnitude.
RECURSIVE digits36(_)
digits36(n) ==
    \* n <= 0: the digits of -n
    IF n = 0 THEN <<>>
    ELSE LET d == (36 - (n % 36)) % 36
         IN Append(digits36((n + d) \div 36), d)

toString36(n) ==
    IF n = 0 THEN <<0>>
    ELSE IF n < 0 THEN <<45>> \o digits36(n)
    ELSE LET d == n % 36 IN Append(digits36(-(n \div 36)), d)

hashString(str) == toString36(hashLoop(str, 1, 0))

\* a loop that adds the hash where hashString subtracts it (hash * 33)
RECURSIVE hashLoop33(_, _, _)
hashLoop33(str, i, hash) ==
    IF i > Len(str) THEN hash
    ELSE hashLoop33(str, i + 1, Add32(Add32(Shl5(hash), hash), str[i]))

\* popup.js hashString (lines 335-343): its loop
RECURSIVE popupHashLoop(_, _, _)
popupHashLoop(str, i, hash) ==
    IF i > Len(str) THEN hash
    ELSE popupHashLoop(str, i + 1, Add32(Sub32(Shl5(hash), hash), str[i]))

popupHashString(str) == toString36(popupHashLoop(str, 1, 0))

\* h * 31, wrapped to 32 bits
Mul31(h) ==
    LET lo == Lo16(h) * 31
        hi == Hi16(h) * 31 + (lo \div Half)
    IN Int32(hi % Half, lo % Half)

\* the rolling hash: hash * 31 + code unit, wrapped to 32 bits at every step
RECURSIVE rolling(_)
rolling(str) ==
    IF str = <<>> THEN 0
    ELSE Add32(Mul31(rolling(SubSeq(str, 1, Len(str) - 1))), str[Len(str)])

\* the number a base-36 rendering denotes, from its digits: minus the value
\* of the digits after a "-", the value of the digits otherwise
RECURSIVE minus36(_)
minus36(ds) ==
    IF ds = <<>> THEN 0
    ELSE minus36(SubSeq(ds, 1, Len(ds) - 1)) * 36 - ds[Len(ds)]

parse36(ds) ==
    IF ds # <<>> /\ ds[1] = 45 THEN minus36(Tail(ds)) ELSE -minus36(ds)

\* the keys of the URLs of the model, computed once
KeyOf == [u \in AllUrls |-> hashString(u)]
Keys == {KeyOf[u] : u \in AllUrls}

----------------------------------------------------------------------------
(* Values *)

NoKey == Null                 \* no credential ('' or absent)
SK == <<"sk-", "1">>          \* a credential

ContentId(n) == <<"content", n>>
AssistantId(n) == <<"asst", n>>
ThreadId(n) == <<"thread", n>>

\* the value stored under session_<key> (createdAt is not modelled)
Session(c, a, t) == [contentId |-> c, assistantId |-> a, threadId |-> t]

\* what storage.get yields for a session key that is not set
NoSession == Session(Null, Null, Null)

\* an entry of state.messages; page is history: the page the send was
\* submitted on (the timestamp is not modelled)
Message(r, c, p) == [role |-> r, content |-> c, page |-> p]

TabUrls == AllUrls \cup {Null}

\* the state object as the script creates it (lines 16-28)
InitialState ==
    [openaiKey |-> Null, contentId |-> Null, assistantId |-> Null,
     threadId |-> Null, currentPageUrl |-> Null, isProcessing |-> FALSE,
     isInitialized |-> FALSE, messages |-> <<>>]

Remove(seq, i) == SubSeq(seq, 1, i - 1) \o SubSeq(seq, i + 1, Len(seq))

NotReopened ==
    [quiet |-> FALSE, session |-> NoSession, messages |-> <<>>, issued |-> {},
     afterReset |-> FALSE, refreshed |-> Null]

Requested(hist, endpoint) ==
    IF hist.quiet \/ hist.refreshed # Null
    THEN [hist EXCEPT !.issued = @ \cup {endpoint}]
    ELSE hist

\* apiRequest not called yet; log is history: what each fetch so far came to
\* headers: the X-OpenAI-Key entry of the headers object, Null when it has
\* none; sent is history: for every fetch issued, the header it carried and
\* what state.openaiKey held then
IdleApi == [pc |-> "idle", attempt |-> 0, log |-> <<>>, error |-> <<>>,
            headers |-> Null, sent |-> <<>>]

----------------------------------------------------------------------------
(* apiRequest: one pass of the retry loop *)

RETRY_ATTEMPTS == 3

\* what one fetch attempt can come to
Responses == {"ok", "okBadBody", "rejectedWithMessage", "rejectedBare", "transport"}

\* the message of the error an attempt throws
ErrorMessage(resp) ==
    CASE resp = "rejectedWithMessage" -> <<"Invalid request">>   \* errorData.error.message
      [] resp = "rejectedBare" -> <<"API error", ": ", "500">>    \* `API error: ${status}`
      [] resp = "okBadBody" -> <<"Unexpected token">>             \* response.json() rejects
      [] OTHER -> <<"Failed to fetch">>                           \* fetch rejects

includes(msg, tok) == \E k \in 1..Len(msg) : msg[k] = tok

\* a variant of apiAttempt that retries after the last attempt as well
apiAttemptRetryingLast(attempt, retries, resp) ==
    IF resp = "ok" THEN "return"
    ELSE IF attempt <= retries /\ ~includes(ErrorMessage(resp), "API error")
         THEN "retry"
         ELSE "throw"

\* the body of the for loop for one attempt: "return", "retry" or "throw"
apiAttempt(attempt, retries, resp) ==
    IF resp = "ok" THEN "return"
    ELSE IF attempt < retries /\ ~includes(ErrorMessage(resp), "API error")
         THEN "retry"
         ELSE "throw"

\* what apiRequest leaves alone: everything but its own activation
ApiFrame ==
    UNCHANGED <<storSession, storMessages, storKey, activeUrl, panel, state, status,
                setupHidden, input, domStreaming, inits, sends, nextId, cmds,
                events, reopened, extractedContent, elfEnabled, extensionState,
                badge, handlers, scripts, now, seen, reply, utilities>>

\* a fetch goes out with the options object the call built
Fetch(headers) == [header |-> headers, key |-> state.openaiKey]

\* lines 339-346: the X-OpenAI-Key header, added if state.openaiKey is truthy
headersFor(key) == IF key # Null THEN key ELSE Null

\* apiRequest is called: up to the await of the first fetch (lines 336-359)
ApiCall ==
    /\ api.pc = "idle"
    /\ LET headers == headersFor(state.openaiKey)
       IN api' = [api EXCEPT !.pc = "fetch", !.headers = headers,
                             !.sent = <<Fetch(headers)>>]
    /\ ApiFrame

\* fetch, and the reading of the body, settled (lines 359-374)
ApiFetched ==
    /\ api.pc = "fetch"
    /\ \E resp \in Responses :
         LET outcome == apiAttempt(api.attempt, RETRY_ATTEMPTS, resp)
             log == Append(api.log, resp)
         IN api' = CASE outcome = "return" -> [api EXCEPT !.pc = "returned", !.log = log]
                     [] outcome = "retry" -> [api EXCEPT !.pc = "sleep", !.log = log]
                     [] OTHER -> [api EXCEPT !.pc = "thrown", !.log = log,
                                             !.error = ErrorMessage(resp)]
    /\ ApiFrame

\* sleep resolved: continue, attempt++ and the test of the for loop
\* (lines 357, 370-371); past the loop the function returns undefined
ApiSleep ==
    /\ api.pc = "sleep"
    /\ api' = [api EXCEPT !.attempt = @ + 1,
                          !.pc = IF api.attempt + 1 <= RETRY_ATTEMPTS
                                 THEN "fetch" ELSE "undefined",
                          !.sent = IF api.attempt + 1 <= RETRY_ATTEMPTS
                                   THEN Append(@, Fetch(api.headers)) ELSE @]
    /\ ApiFrame

----------------------------------------------------------------------------
(* initializeForCurrentPage *)

\* stored and asked are history: the contentId that store-content returned to
\* this activation, and the one its create-assistant request carried
NewInit == [pc |-> "query", url |-> Null, mkey |-> Null, stored |-> Null, asked |-> Null]

\* the call itself, up to its first await (tabs.query)
CallInitialize ==
    /\ inits' = Append(inits, NewInit)
    /\ status' = "processing"

\* elements.messages.innerHTML = '': every element is detached
Detached(ss) == [k \in 1..Len(ss) |-> [ss[k] EXCEPT !.elAttached = FALSE]]

\* tabs.query resolved (lines 229-252)
InitQuery(i) ==
    /\ i \in 1..Len(inits) /\ inits[i].pc = "query"
    /\ UNCHANGED <<extension, utilities>>
    /\ IF activeUrl = Null \/ startsWith(activeUrl, ChromePrefix)
       THEN /\ status' = "error"
            /\ inits' = Remove(inits, i)
            /\ UNCHANGED <<state, sends, domStreaming>>
       ELSE /\ state' = [state EXCEPT !.currentPageUrl = activeUrl,
                                      !.contentId = Null, !.assistantId = Null,
                                      !.threadId = Null, !.messages = <<>>]
            /\ sends' = Detached(sends)
            /\ domStreaming' = 0
            /\ inits' = [inits EXCEPT ![i].pc = "session", ![i].url = activeUrl]
            /\ UNCHANGED status
    /\ UNCHANGED <<storSession, storMessages, storKey, activeUrl, panel,
                   setupHidden, input, api, nextId, cmds, events, reopened>>

\* a variant of Restore that leaves the thread out
RestoreWithoutThread(st, session) ==
    [st EXCEPT !.contentId = session.contentId,
               !.assistantId = session.assistantId]

\* the stored session is taken over into the state object (lines 256-258)
Restore(st, session) ==
    [st EXCEPT !.contentId = session.contentId,
               !.assistantId = session.assistantId,
               !.threadId = session.threadId]

\* storage.get([sessionKey]) resolved (lines 252-269)
InitSession(i) ==
    /\ i \in 1..Len(inits) /\ inits[i].pc = "session"
    /\ UNCHANGED <<extension, utilities>>
    /\ LET session == storSession[KeyOf[inits[i].url]] IN
       IF session # NoSession
       THEN /\ state' = Restore(state, session)
            \* loadMessages takes its key from state.currentPageUrl
            /\ inits' = [inits EXCEPT ![i].pc = "messages",
                                      ![i].mkey = KeyOf[state.currentPageUrl]]
       ELSE /\ inits' = [inits EXCEPT ![i].pc = "content"]
            /\ UNCHANGED state
    /\ UNCHANGED <<storSession, storMessages, storKey, activeUrl, panel, status,
                   setupHidden, input, domStreaming, sends, api, nextId,
                   cmds, events, reopened>>

\* loadMessages: storage.get([messages key]) resolved (lines 625-658, 262-265)
InitMessages(i) ==
    /\ i \in 1..Len(inits) /\ inits[i].pc = "messages"
    /\ UNCHANGED <<extension, utilities>>
    /\ LET log == storMessages[inits[i].mkey] IN
       IF Len(log) > 0
       THEN /\ state' = [state EXCEPT !.messages = log, !.isInitialized = TRUE]
            /\ sends' = Detached(sends)
            /\ domStreaming' = 0
       ELSE /\ state' = [state EXCEPT !.isInitialized = TRUE]
            /\ UNCHANGED <<sends, domStreaming>>
    /\ status' = "connected"
    /\ inits' = Remove(inits, i)
    /\ UNCHANGED <<storSession, storMessages, storKey, activeUrl, panel,
                   setupHidden, input, api, nextId, cmds, events, reopened>>

\* getPageContent resolved (lines 269-284): the content script answered
\* with the page data, or there is none (lastError, or it answered null)
InitContent(i) ==
    /\ i \in 1..Len(inits) /\ inits[i].pc = "content"
    /\ UNCHANGED <<extension, utilities>>
    /\ \E content \in {TRUE, FALSE} :
         IF ~content
         THEN /\ status' = "error"
              /\ inits' = Remove(inits, i)
              /\ UNCHANGED reopened
         ELSE /\ status' = "processing"
              /\ inits' = [inits EXCEPT ![i].pc = "store"]
              /\ reopened' = Requested(reopened, "store")
    /\ UNCHANGED <<storSession, storMessages, storKey, activeUrl, panel, state,
                   setupHidden, input, domStreaming, sends, api, nextId,
                   cmds, events>>

\* how a call of apiRequest ends: the last pass of its loop, at some attempt
\* (the earlier passes, each a fetch that was retried, touch no state)
apiOutcomes ==
    {apiAttempt(a, RETRY_ATTEMPTS, resp) : a \in 0..RETRY_ATTEMPTS, resp \in Responses}
        \ {"retry"}

\* a variant of createBody that carries no contentId
createBodyEmpty(st) == Null

\* the contentId in the body of the create-assistant request (line 291)
createBody(st) == st.contentId

\* apiRequest('/api/content/store') settled (lines 278-292)
InitStore(i) ==
    /\ i \in 1..Len(inits) /\ inits[i].pc = "store"
    /\ UNCHANGED <<extension, utilities>>
    /\ \E outcome \in apiOutcomes :
         IF outcome = "return"
         THEN LET st == [state EXCEPT !.contentId = ContentId(nextId)] IN
              /\ state' = st
              /\ nextId' = nextId + 1
              /\ status' = "processing"
              /\ inits' = [inits EXCEPT ![i].pc = "create",
                                        ![i].stored = ContentId(nextId),
                                        ![i].asked = createBody(st)]
              /\ reopened' = Requested(reopened, "create")
         ELSE /\ status' = "error"
              /\ inits' = Remove(inits, i)
              /\ UNCHANGED <<state, nextId, reopened>>
    /\ UNCHANGED <<storSession, storMessages, storKey, activeUrl, panel,
                   setupHidden, input, domStreaming, sends, api, cmds, events>>

\* apiRequest('/api/assistant/create') settled (lines 290-305)
InitCreate(i) ==
    /\ i \in 1..Len(inits) /\ inits[i].pc = "create"
    /\ UNCHANGED <<extension, utilities>>
    /\ \E outcome \in apiOutcomes :
         IF outcome = "return"
         THEN /\ state' = [state EXCEPT !.assistantId = AssistantId(nextId),
                                        !.threadId = ThreadId(nextId)]
              /\ nextId' = nextId + 1
              \* storage.set: the record is built from the state object now
              /\ storSession' = [storSession EXCEPT ![KeyOf[inits[i].url]] =
                     Session(state.contentId, AssistantId(nextId), ThreadId(nextId))]
              /\ inits' = [inits EXCEPT ![i].pc = "persist"]
              /\ UNCHANGED status
         ELSE /\ status' = "error"
              /\ inits' = Remove(inits, i)
              /\ UNCHANGED <<state, nextId, storSession>>
    /\ UNCHANGED <<storMessages, storKey, activeUrl, panel, setupHidden, input,
                   domStreaming, sends, api, cmds, events, reopened>>

\* storage.set resolved (lines 307-309)
InitPersist(i) ==
    /\ i \in 1..Len(inits) /\ inits[i].pc = "persist"
    /\ UNCHANGED <<extension, utilities>>
    /\ status' = "connected"
    /\ state' = [state EXCEPT !.isInitialized = TRUE]
    /\ inits' = Remove(inits, i)
    /\ UNCHANGED <<storSession, storMessages, storKey, activeUrl, panel,
                   setupHidden, input, domStreaming, sends, api, nextId,
                   cmds, events, reopened>>

----------------------------------------------------------------------------
(* The streamed response body *)

\* a line of a decoded chunk, by the two tests the reader applies to it:
\* whether it starts with "data: ", and what JSON.parse makes of the rest
\* a text JSON.parse throws on (a piece of a frame, or nothing at all)
Unparsable == [type |-> "unparsable", content |-> <<>>]
Line(p, j) == [prefixed |-> p, json |-> j]

TextFrame(c) == Line(TRUE, [type |-> "text", content |-> c])
DoneFrame == Line(TRUE, [type |-> "done", content |-> <<>>])
ErrorFrame == Line(TRUE, [type |-> "error", content |-> <<"overloaded">>])
HeadPart == Line(TRUE, Unparsable)     \* a frame cut off by the end of the read
\* the rest of it, at the start of the next read; an empty line that
\* split('\n') leaves is alike: no "data: " in front
TailPart == Line(FALSE, Unparsable)

WellFormed(line) == line.prefixed /\ line.json # Unparsable

\* formatMessageContent: the HTML escapes (the texts of the model hold no
\* markdown markup and no line break, which the other replaces act on)
escape(tok) ==
    CASE tok = "&" -> "&amp;"
      [] tok = "<" -> "&lt;"
      [] tok = ">" -> "&gt;"
      [] OTHER -> tok

formatMessageContent(content) == [k \in 1..Len(content) |-> escape(content[k])]

\* String.prototype.trim on a text whose blanks are the tokens " "
RECURSIVE trimStart(_)
trimStart(t) == IF Len(t) > 0 /\ Head(t) = " " THEN trimStart(Tail(t)) ELSE t

RECURSIVE trimEnd(_)
trimEnd(t) ==
    IF Len(t) > 0 /\ t[Len(t)] = " " THEN trimEnd(SubSeq(t, 1, Len(t) - 1)) ELSE t

trim(t) == trimEnd(trimStart(t))

----------------------------------------------------------------------------
(* sendMessage *)

\* addMessage / the done branch: push on state.messages, then saveMessages,
\* which writes the whole list under the key of state.currentPageUrl
Pushed(st, msg) == [st EXCEPT !.messages = Append(@, msg)]

saveMessages(st, stor) ==
    IF st.currentPageUrl \in AllUrls
    THEN [stor EXCEPT ![KeyOf[st.currentPageUrl]] = st.messages]
    ELSE stor       \* hashString(null) throws: the promise rejects, nothing is written

\* a variant of Accepts without the test of isProcessing
AcceptsWhileProcessing(st, message) ==
    /\ message # <<>>
    /\ st.isInitialized
    /\ st.threadId # Null

\* the guards of lines 384-391: the submit goes through
Accepts(st, message) ==
    /\ message # <<>>
    /\ ~st.isProcessing
    /\ st.isInitialized
    /\ st.threadId # Null

\* sendMessage from its call to the await of fetch (lines 382-438)
sendMessage(value) ==
    LET message == trim(value) IN
    IF Accepts(state, message)
    THEN LET st == Pushed(state, Message("user", message, state.currentPageUrl)) IN
         /\ input' = <<>>
         /\ state' = [st EXCEPT !.isProcessing = TRUE]
         /\ storMessages' = saveMessages(st, storMessages)
         /\ status' = "processing"
         /\ domStreaming' = domStreaming + 1
         /\ sends' = Append(sends,
                [pc |-> "fetch", page |-> state.currentPageUrl,
                 threadId |-> state.threadId, full |-> <<>>, shown |-> <<>>,
                 elAttached |-> TRUE, elStreaming |-> TRUE, reads |-> 0,
                 got |-> <<>>, last |-> <<>>])
    ELSE /\ input' = value
         /\ UNCHANGED <<state, storMessages, status, domStreaming, sends>>

\* a variant of Failed without the finally block
FailedStayingBusy(j, errorMessage) ==
    LET st == Pushed(state, Message("error", <<"Error: ">> \o errorMessage, sends[j].page)) IN
    /\ domStreaming' = IF sends[j].elAttached /\ sends[j].elStreaming
                       THEN domStreaming - 1 ELSE domStreaming
    /\ state' = st
    /\ storMessages' = saveMessages(st, storMessages)
    /\ status' = "error"
    /\ sends' = Remove(sends, j)

\* the catch and finally blocks (lines 493-506)
Failed(j, errorMessage) ==
    LET st == Pushed(state, Message("error", <<"Error: ">> \o errorMessage, sends[j].page)) IN
    /\ domStreaming' = IF sends[j].elAttached /\ sends[j].elStreaming
                       THEN domStreaming - 1 ELSE domStreaming
    /\ state' = [st EXCEPT !.isProcessing = FALSE]
    /\ storMessages' = saveMessages(st, storMessages)
    /\ status' = "error"
    /\ sends' = Remove(sends, j)

\* fetch settled (lines 430-455)
SendResponse(j) ==
    /\ j \in 1..Len(sends) /\ sends[j].pc = "fetch"
    /\ UNCHANGED <<extension, utilities>>
    /\ \E resp \in {"ok", "rejected", "transport"} :
         CASE resp = "ok" ->
                /\ status' = "processing"
                /\ sends' = [sends EXCEPT ![j].pc = "read"]
                /\ UNCHANGED <<state, storMessages, domStreaming>>
           [] resp = "rejected" -> Failed(j, <<"Stream request failed">>)
           [] OTHER -> Failed(j, <<"Failed to fetch">>)
    /\ UNCHANGED <<storSession, storKey, activeUrl, panel, setupHidden, input,
                   inits, api, nextId, cmds, events, reopened>>

\* what the reader carries from one line to the next
Reader(st, stor, dom, send) == [st |-> st, stor |-> stor, dom |-> dom, send |-> send]

\* a variant of processLine that puts a text frame in front of the text so far
processLineNewestFirst(r, line) ==
    IF ~line.prefixed THEN r
    ELSE IF line.json = Unparsable THEN r
    ELSE IF line.json.type = "text" THEN
        LET full == line.json.content \o r.send.full IN
        [r EXCEPT !.send.full = full, !.send.shown = formatMessageContent(full)]
    ELSE IF line.json.type = "done" THEN
        LET st == Pushed(r.st, Message("assistant", r.send.full, r.send.page)) IN
        [r EXCEPT !.send.shown = formatMessageContent(r.send.full),
                  !.send.elStreaming = FALSE,
                  !.dom = IF r.send.elAttached /\ r.send.elStreaming THEN @ - 1 ELSE @,
                  !.st = st,
                  !.stor = saveMessages(st, r.stor)]
    ELSE r

\* a variant of processLine that starts the text afresh after a payload that
\* does not parse
processLineRestarting(r, line) ==
    IF ~line.prefixed THEN r
    ELSE IF line.json = Unparsable THEN
        [r EXCEPT !.send.full = <<>>, !.send.shown = <<>>]
    ELSE IF line.json.type = "text" THEN
        LET full == r.send.full \o line.json.content IN
        [r EXCEPT !.send.full = full, !.send.shown = formatMessageContent(full)]
    ELSE IF line.json.type = "done" THEN
        LET st == Pushed(r.st, Message("assistant", r.send.full, r.send.page)) IN
        [r EXCEPT !.send.shown = formatMessageContent(r.send.full),
                  !.send.elStreaming = FALSE,
                  !.dom = IF r.send.elAttached /\ r.send.elStreaming THEN @ - 1 ELSE @,
                  !.st = st,
                  !.stor = saveMessages(st, r.stor)]
    ELSE r

\* the body of the for loop over the lines of a chunk (lines 462-487)
processLine(r, line) ==
    IF ~line.prefixed THEN r
    ELSE IF line.json = Unparsable THEN r        \* JSON.parse throws, caught at 484
    ELSE IF line.json.type = "text" THEN
        LET full == r.send.full \o line.json.content IN
        [r EXCEPT !.send.full = full, !.send.shown = formatMessageContent(full)]
    ELSE IF line.json.type = "done" THEN
        LET st == Pushed(r.st, Message("assistant", r.send.full, r.send.page)) IN
        [r EXCEPT !.send.shown = formatMessageContent(r.send.full),
                  !.send.elStreaming = FALSE,
                  !.dom = IF r.send.elAttached /\ r.send.elStreaming THEN @ - 1 ELSE @,
                  !.st = st,
                  !.stor = saveMessages(st, r.stor)]
    ELSE r      \* "error": the throw of line 482 is inside the try of line 463

RECURSIVE processLines(_, _)
processLines(r, lines) ==
    IF lines = <<>> THEN r
    ELSE processLines(processLine(r, Head(lines)), Tail(lines))

\* reader.read() settled (lines 454-491, 504-506)
SendRead(j, chunks) ==
    /\ j \in 1..Len(sends) /\ sends[j].pc = "read"
    /\ UNCHANGED <<extension, utilities>>
    /\ \/ \E chunk \in chunks :
            /\ LET r == processLines(
                        Reader(state, storMessages, domStreaming,
                               [sends[j] EXCEPT !.reads = @ + 1,
                                                !.got = @ \o chunk,
                                                !.last = chunk]),
                        chunk) IN
               /\ state' = r.st
               /\ storMessages' = r.stor
               /\ domStreaming' = r.dom
               /\ sends' = [sends EXCEPT ![j] = r.send]
               /\ UNCHANGED status
       \/ \* done: the body has ended
          /\ status' = "connected"
          /\ state' = [state EXCEPT !.isProcessing = FALSE]
          /\ sends' = Remove(sends, j)
          /\ UNCHANGED <<storMessages, domStreaming>>
       \/ \* the read rejects: the connection dropped
          Failed(j, <<"network error">>)
    /\ UNCHANGED <<storSession, storKey, activeUrl, panel, setupHidden, input,
                   inits, api, nextId, cmds, events, reopened>>

----------------------------------------------------------------------------
(* Events of the panel *)

Event == events < MaxEvents /\ events' = events + 1

InputTexts == {<<"q">>, <<" ">>}
QuickPrompt == <<"Summarize">>

\* the life-cycle specification lets the whole body arrive in one read: an
\* answer, an answer that lacks its done frame, or an error frame
PlainChunks(send) ==
    IF send.reads = 0
    THEN {<<TextFrame(<<"a">>), DoneFrame>>, <<TextFrame(<<"a">>)>>, <<ErrorFrame>>}
    ELSE {}

\* the user edits the message box to t, then Enter or a click on the send
\* button (lines 148-150)
Submit(t) ==
    /\ panel # "closed"
    /\ UNCHANGED <<extension, utilities>>
    /\ Event
    /\ sendMessage(t)
    /\ reopened' = NotReopened
    /\ UNCHANGED <<storSession, storKey, activeUrl, panel, setupHidden, inits,
                   api, nextId, cmds>>

\* a click on a quick-action button (lines 156-165)
QuickAction ==
    /\ panel # "closed"
    /\ UNCHANGED <<extension, utilities>>
    /\ Event
    /\ sendMessage(QuickPrompt)
    /\ reopened' = NotReopened
    /\ UNCHANGED <<storSession, storKey, activeUrl, panel, setupHidden, inits,
                   api, nextId, cmds>>

\* chrome.tabs.onActivated (lines 86-88): another tab, showing u, became the
\* active one
TabActivated(u) ==
    /\ Event
    /\ UNCHANGED <<extension, utilities>>
    /\ panel # "closed"
    /\ u # activeUrl
    /\ activeUrl' = u
    /\ CallInitialize
    /\ reopened' = NotReopened
    /\ UNCHANGED <<nextId, storSession, storMessages, storKey, panel, state, setupHidden,
                   input, domStreaming, sends, api, cmds>>

\* chrome.tabs.onUpdated with status complete on the active tab (lines 91-95):
\* the page was loaded again (a navigation to another URL u leaves what
\* TabActivated(u) leaves: the listeners differ in their test only)
TabUpdated ==
    /\ Event
    /\ UNCHANGED <<extension, utilities>>
    /\ panel # "closed"
    /\ activeUrl # Null
    /\ CallInitialize
    /\ reopened' = NotReopened
    /\ UNCHANGED <<nextId, storSession, storMessages, storKey, activeUrl, panel, state,
                   setupHidden, input, domStreaming, sends, api, cmds>>

\* refreshContext up to the await of tabs.query (lines 763-768)
RefreshContext ==
    /\ Event
    /\ UNCHANGED <<extension, utilities>>
    /\ panel # "closed"
    /\ status' = "processing"
    /\ cmds' = Append(cmds, "refreshQuery")
    /\ reopened' = NotReopened
    /\ UNCHANGED <<storSession, storMessages, storKey, activeUrl, panel, state,
                   setupHidden, input, domStreaming, inits, sends, api, nextId>>

\* refreshContext from tabs.query to the await of storage.remove (lines 768-772)
RefreshQuery(c) ==
    /\ c \in 1..Len(cmds) /\ cmds[c] = "refreshQuery"
    /\ UNCHANGED <<extension, utilities>>
    /\ IF activeUrl = Null
       THEN \* hashString(undefined) throws: the catch of line 789
            /\ status' = "error"
            /\ cmds' = Remove(cmds, c)
            /\ UNCHANGED <<storSession, storMessages, reopened>>
       ELSE /\ storSession' = [storSession EXCEPT ![KeyOf[activeUrl]] = NoSession]
            /\ storMessages' = [storMessages EXCEPT ![KeyOf[activeUrl]] = <<>>]
            /\ cmds' = [cmds EXCEPT ![c] = "refresh"]
            /\ reopened' = [NotReopened EXCEPT !.refreshed = activeUrl,
                                               !.session = storSession[KeyOf[activeUrl]]]
            /\ UNCHANGED status
    /\ UNCHANGED <<storKey, activeUrl, panel, state, setupHidden, input,
                   domStreaming, inits, sends, api, nextId, events>>

\* refreshContext after storage.remove (lines 774-787)
RefreshResume(c) ==
    /\ c \in 1..Len(cmds) /\ cmds[c] = "refresh"
    /\ UNCHANGED <<extension, utilities>>
    /\ state' = [state EXCEPT !.contentId = Null, !.assistantId = Null,
                              !.threadId = Null, !.messages = <<>>,
                              !.isInitialized = FALSE]
    /\ sends' = Detached(sends)
    /\ domStreaming' = 0
    /\ CallInitialize
    /\ cmds' = Remove(cmds, c)
    /\ UNCHANGED <<nextId, storSession, storMessages, storKey, activeUrl, panel,
                   setupHidden, input, api, events, reopened>>

\* clearConversation, confirmed, up to the await of storage.remove (lines 798-802)
ClearConversation ==
    /\ Event
    /\ UNCHANGED <<extension, utilities>>
    /\ panel # "closed"
    /\ state.currentPageUrl # Null      \* hashString(null) throws otherwise
    /\ storMessages' = [storMessages EXCEPT ![KeyOf[state.currentPageUrl]] = <<>>]
    /\ cmds' = Append(cmds, "clear")
    /\ reopened' = NotReopened
    /\ UNCHANGED <<storSession, storKey, activeUrl, panel, state, status,
                   setupHidden, input, domStreaming, inits, sends, api, nextId>>

\* clearConversation after storage.remove (lines 804-810)
ClearResume(c) ==
    /\ c \in 1..Len(cmds) /\ cmds[c] = "clear"
    /\ UNCHANGED <<extension, utilities>>
    /\ state' = [state EXCEPT !.messages = <<>>]
    /\ sends' = Detached(sends)
    /\ domStreaming' = 0
    /\ cmds' = Remove(cmds, c)
    /\ UNCHANGED <<storSession, storMessages, storKey, activeUrl, panel, status,
                   setupHidden, input, inits, api, nextId, events, reopened>>

\* resetAllData, confirmed, up to the await of storage.clear (lines 852-855)
ResetAllData ==
    /\ Event
    /\ panel # "closed"
    /\ storSession' = [k \in Keys |-> NoSession]
    /\ storMessages' = [k \in Keys |-> <<>>]
    /\ storKey' = NoKey
    /\ extractedContent' = <<>>
    /\ elfEnabled' = "undefined"
    /\ cmds' = Append(cmds, "reset")
    /\ reopened' = [NotReopened EXCEPT !.afterReset = TRUE]
    /\ UNCHANGED <<activeUrl, panel, state, status, setupHidden, input,
                   domStreaming, inits, sends, api, nextId, extensionState, badge,
                   handlers, scripts, now, seen, reply, utilities>>

\* resetAllData after storage.clear (lines 857-874)
ResetResume(c) ==
    /\ c \in 1..Len(cmds) /\ cmds[c] = "reset"
    /\ UNCHANGED <<extension, utilities>>
    /\ state' = [state EXCEPT !.contentId = Null, !.assistantId = Null,
                              !.threadId = Null, !.messages = <<>>,
                              !.isInitialized = FALSE]
    /\ sends' = Detached(sends)
    /\ domStreaming' = 0
    /\ CallInitialize
    /\ cmds' = Remove(cmds, c)
    /\ UNCHANGED <<nextId, storSession, storMessages, storKey, activeUrl, panel,
                   setupHidden, input, api, events, reopened>>

\* saveKeyFromSetup with a key that starts with "sk-" (lines 101-123)
SaveKeyFromSetup ==
    /\ Event
    /\ UNCHANGED <<extension, utilities>>
    /\ panel # "closed"
    /\ ~setupHidden
    /\ state' = [state EXCEPT !.openaiKey = SK]
    /\ storKey' = SK
    /\ setupHidden' = TRUE
    /\ CallInitialize
    /\ reopened' = NotReopened
    /\ UNCHANGED <<nextId, storSession, storMessages, activeUrl, panel, input,
                   domStreaming, sends, api, cmds>>

\* saveOpenaiKey with the settings field emptied (lines 214-219): "API Key
\* cleared" (with a key in the field it leaves what SaveKeyFromSetup stores)
SaveOpenaiKey ==
    /\ Event
    /\ UNCHANGED <<extension, utilities>>
    /\ panel # "closed"
    /\ storKey # NoKey
    /\ state' = [state EXCEPT !.openaiKey = Null]
    /\ storKey' = NoKey
    /\ reopened' = NotReopened
    /\ UNCHANGED <<storSession, storMessages, activeUrl, panel, status,
                   setupHidden, input, domStreaming, inits, sends, api, nextId, cmds>>

----------------------------------------------------------------------------
(* The background service worker and the content script                    *)
(* (src/background/background.js, src/content/content.js)                  *)

MAX_STORED_PAGES == 50

\* messages and browser events the worker and the content script take in
\* one behaviour
MaxMessages == 2

\* the URL of the n-th of the pages visited: "/" and one more character
Site(n) == <<47, n>>

\* "file://"
FilePrefix == <<102, 105, 108, 101, 58, 47, 47>>
FilePage == FilePrefix \o <<102>>     \* "file://f"

\* one key of the extractedContent object with its value: of the record
\* kept under the URL, the time it was stamped with
Entry(url, at) == [url |-> url, extractedAt |-> at]

\* Object.keys(content)
ObjectKeys(content) == [i \in 1..Len(content) |-> content[i].url]

\* content[url] = {...data, extractedAt}: a key that is there keeps its place
assign(content, url, at) ==
    IF \E i \in 1..Len(content) : content[i].url = url
    THEN [i \in 1..Len(content) |->
             IF content[i].url = url THEN Entry(url, at) ELSE content[i]]
    ELSE Append(content, Entry(url, at))

\* delete content[url]
delete(content, url) == SelectSeq(content, LAMBDA e : e.url # url)

\* the comparator the other way round
compareOldestFirst(a, b) == a.extractedAt - b.extractedAt

\* (a, b) => new Date(content[b].extractedAt) - new Date(content[a].extractedAt),
\* the entries standing for their keys (line 143)
compare(a, b) == b.extractedAt - a.extractedAt

\* urls.sort(...) (lines 142-144): the place, counted from 1, the sort gives
\* the i-th key.  Array.prototype.sort is stable: a key comes behind those
\* the comparator puts before it and those it ties with that stood before it
sortedIndex(content, i) ==
    1 + Cardinality({j \in 1..Len(content) :
                        \/ compare(content[j], content[i]) < 0
                        \/ compare(content[j], content[i]) = 0 /\ j < i})

\* the cap left out
limitNothing(content) == content

\* lines 140-149: the keys sortedUrls.slice(MAX_STORED_PAGES) holds are deleted
limit(content) ==
    IF Len(ObjectKeys(content)) > MAX_STORED_PAGES
    THEN LET beyond == {content[i].url :
                           i \in {j \in 1..Len(content) :
                                     sortedIndex(content, j) > MAX_STORED_PAGES}}
         IN SelectSeq(content, LAMBDA e : e.url \notin beyond)
    ELSE content

\* an activation of one of the worker's async functions, suspended at the
\* await pc names; read is history: the object handleContentExtracted got
Handler(fn, pc, url, content, enabled) ==
    [fn |-> fn, pc |-> pc, url |-> url, content |-> content, read |-> content,
     enabled |-> enabled]

\* what the worker and the content script leave alone
PanelFrame ==
    UNCHANGED <<storSession, storMessages, storKey, activeUrl, panel, state, status,
                setupHidden, input, domStreaming, inits, sends, api, nextId, cmds,
                reopened, utilities>>

Incoming == events < MaxMessages /\ events' = events + 1

\* handleContentExtracted(data, tab) up to its first await (lines 124-129)
handleContentExtracted(hs, url) ==
    IF url = Null THEN hs
    ELSE Append(hs, Handler("handleContentExtracted", "get", url, <<>>, FALSE))

\* onMessage, CONTENT_EXTRACTED (lines 73-76), from the content script of
\* some tab; a message without data or URL among them
ContentExtracted(url) ==
    /\ Incoming
    /\ handlers' = handleContentExtracted(handlers, url)
    /\ PanelFrame
    /\ UNCHANGED <<extractedContent, elfEnabled, extensionState, badge, scripts,
                   now, seen, reply>>

\* handleContentExtracted, storage.local.get settled: the record is merged
\* and stamped, the cap enforced, storage.local.set awaited (lines 129-151)
ExtractedGet(k) ==
    /\ k \in 1..Len(handlers)
    /\ handlers[k].fn = "handleContentExtracted" /\ handlers[k].pc = "get"
    /\ LET content == limit(assign(extractedContent, handlers[k].url, now))
       IN handlers' = [handlers EXCEPT ![k].pc = "set", ![k].content = content,
                                       ![k].read = extractedContent]
    /\ now' \in {now, now + 1}
    /\ PanelFrame
    /\ UNCHANGED <<events, extractedContent, elfEnabled, extensionState, badge,
                   scripts, seen, reply>>

\* handleContentExtracted, storage.local.set settled (lines 151-156)
ExtractedSet(k) ==
    /\ k \in 1..Len(handlers)
    /\ handlers[k].fn = "handleContentExtracted" /\ handlers[k].pc = "set"
    /\ extractedContent' = handlers[k].content
    /\ handlers' = Remove(handlers, k)
    /\ PanelFrame
    /\ UNCHANGED <<events, elfEnabled, extensionState, badge, scripts, now, seen,
                   reply>>

\* the flag as storage holds it
Flag(enabled) == IF enabled THEN "true" ELSE "false"

\* updateBadge (lines 219-226)
updateBadge(enabled) == IF enabled THEN "" ELSE "OFF"

\* onMessage, STATE_CHANGED: handleStateChange up to its await (lines 87-90, 174-176)
StateChanged(enabled) ==
    /\ Incoming
    /\ extensionState' = [extensionState EXCEPT !.enabled = enabled]
    /\ handlers' = Append(handlers, Handler("handleStateChange", "set", Null, <<>>, enabled))
    /\ seen' = [restart |-> "none", answer |-> "none"]
    /\ PanelFrame
    /\ UNCHANGED <<extractedContent, elfEnabled, badge, scripts, now, reply>>

\* handleStateChange, storage.local.set settled (lines 176-181)
StateChangeSet(k) ==
    /\ k \in 1..Len(handlers)
    /\ handlers[k].fn = "handleStateChange" /\ handlers[k].pc = "set"
    /\ elfEnabled' = Flag(handlers[k].enabled)
    /\ badge' = updateBadge(handlers[k].enabled)
    /\ handlers' = Remove(handlers, k)
    /\ PanelFrame
    /\ UNCHANGED <<events, extractedContent, extensionState, scripts, now, seen, reply>>

\* onMessage, GET_STATE (lines 83-85)
GetState ==
    /\ Incoming
    /\ seen' = [seen EXCEPT !.answer = Flag(extensionState.enabled)]
    /\ PanelFrame
    /\ UNCHANGED <<extractedContent, elfEnabled, extensionState, badge, handlers,
                   scripts, now, reply>>

\* the script of the worker runs: extensionState as declared, loadState()
\* up to its await (lines 15-19, 270-272, 283)
Started == [enabled |-> TRUE]
Loading == Handler("loadState", "get", Null, <<>>, FALSE)

\* the browser stops the idle worker; the next event starts it again
Restart ==
    /\ Incoming
    /\ handlers = <<>>
    /\ extensionState' = Started
    /\ handlers' = <<Loading>>
    /\ seen' = [restart |-> elfEnabled, answer |-> "none"]
    /\ PanelFrame
    /\ UNCHANGED <<extractedContent, elfEnabled, badge, scripts, now, reply>>

\* loadState, storage.local.get settled (lines 272-276)
LoadState(k) ==
    /\ k \in 1..Len(handlers)
    /\ handlers[k].fn = "loadState"
    /\ extensionState' = [extensionState EXCEPT !.enabled = elfEnabled # "false"]
    /\ badge' = updateBadge(elfEnabled # "false")
    /\ handlers' = Remove(handlers, k)
    /\ PanelFrame
    /\ UNCHANGED <<events, extractedContent, elfEnabled, scripts, now, seen, reply>>

\* the extension is installed or updated: the worker starts, and
\* runtime.onInstalled is dispatched to it, its listener running up to the
\* await of storage.local.set (lines 24-33); the badge of the version
\* before is kept or dropped with it
Installed ==
    /\ Incoming
    /\ handlers = <<>>
    /\ extensionState' = Started
    /\ handlers' = <<Loading, Handler("onInstalled", "set", Null, <<>>, TRUE)>>
    /\ badge' \in {badge, ""}
    /\ seen' = [restart |-> "none", answer |-> "none"]
    /\ PanelFrame
    /\ UNCHANGED <<extractedContent, elfEnabled, scripts, now, reply>>

\* the onInstalled listener, storage.local.set settled (lines 28-40)
InstalledSet(k) ==
    /\ k \in 1..Len(handlers)
    /\ handlers[k].fn = "onInstalled"
    /\ elfEnabled' = "true"
    /\ extractedContent' = <<>>
    /\ handlers' = Remove(handlers, k)
    /\ PanelFrame
    /\ UNCHANGED <<events, extensionState, badge, scripts, now, seen, reply>>

----------------------------------------------------------------------------
(* The content script of one tab *)

\* the prefixes runExtraction refuses (lines 329-334) that occur in ScriptUrls
isInternal(url) == startsWith(url, ChromePrefix) \/ startsWith(url, FilePrefix)

\* pages a content script runs in
ScriptUrls == {PageA, FilePage}

\* what extractPageData returns: of the record, its url
PageRecord(url) == url

NoReply == [op |-> "none", url |-> Null, data |-> Null, asked |-> "none", flag |-> "none"]

\* an answer of the content script; history: the flag storage held when the
\* request arrived and holds now
Reply(op, url, data, asked) ==
    [op |-> op, url |-> url, data |-> data, asked |-> asked, flag |-> elfEnabled]

\* onMessage, TRIGGER_EXTRACTION: runExtraction up to the await in
\* isExtensionEnabled (lines 358-359, 321-322, 71-73)
TriggerExtraction(url) ==
    /\ Incoming
    /\ scripts' = Append(scripts, [pc |-> "enabled", url |-> url, asked |-> elfEnabled])
    /\ PanelFrame
    /\ UNCHANGED <<extractedContent, elfEnabled, extensionState, badge, handlers,
                   now, seen, reply>>

\* runExtraction, storage.local.get settled: null when disabled or on an
\* internal URL, else the page data is extracted and sent to the worker,
\* whose listener starts handleContentExtracted (lines 73-74, 322-343, 302-307)
ExtractionEnabled(s) ==
    /\ s \in 1..Len(scripts) /\ scripts[s].pc = "enabled"
    /\ IF elfEnabled = "false" \/ isInternal(scripts[s].url)
       THEN /\ reply' = Reply("TRIGGER_EXTRACTION", scripts[s].url, Null, scripts[s].asked)
            /\ scripts' = Remove(scripts, s)
            /\ UNCHANGED handlers
       ELSE /\ handlers' = handleContentExtracted(handlers, scripts[s].url)
            /\ scripts' = [scripts EXCEPT ![s].pc = "sent"]
            /\ UNCHANGED reply
    /\ PanelFrame
    /\ UNCHANGED <<events, extractedContent, elfEnabled, extensionState, badge,
                   now, seen>>

\* runExtraction, runtime.sendMessage settled: the page data is returned and
\* sent as the response (lines 343-344, 359-360)
ExtractionSent(s) ==
    /\ s \in 1..Len(scripts) /\ scripts[s].pc = "sent"
    /\ reply' = Reply("TRIGGER_EXTRACTION", scripts[s].url, PageRecord(scripts[s].url),
                      scripts[s].asked)
    /\ scripts' = Remove(scripts, s)
    /\ PanelFrame
    /\ UNCHANGED <<events, extractedContent, elfEnabled, extensionState, badge,
                   handlers, now, seen>>

\* onMessage, GET_PAGE_CONTENT (lines 366-374)
GetPageContent(url) ==
    /\ Incoming
    /\ reply' = Reply("GET_PAGE_CONTENT", url, PageRecord(url), elfEnabled)
    /\ PanelFrame
    /\ UNCHANGED <<extractedContent, elfEnabled, extensionState, badge, handlers,
                   scripts, now, seen>>

----------------------------------------------------------------------------
(* The content script: observePageChanges (lines 388-416).  Times are in   *)
(* milliseconds.                                                           *)

\* the delay of the debounce timer (line 409)
DebounceDelay == 2000

\* callbacks of the MutationObserver in one behaviour, mutations in one
\* callback, and the time the clock stops at
MaxCallbacks == 2
MaxBatch == 1
MaxTime == 6000

\* the clock advances by half the delay
TickLength == DebounceDelay \div 2

\* a MutationRecord: how many nodes it added and removed, the tag of its target
Mutation(added, removed, tagName) ==
    [addedNodes |-> added, removedNodes |-> removed, tagName |-> tagName]

Mutations ==
    {Mutation(1, 0, "DIV"), Mutation(5, 0, "DIV"), Mutation(6, 0, "DIV"),
     Mutation(0, 6, "DIV"), Mutation(1, 0, "ARTICLE"), Mutation(0, 1, "MAIN")}

\* what one callback of the observer is given
Batches == UNION {[1..n -> Mutations] : n \in 1..MaxBatch}

\* lines 397-402
significantChange(mutations) ==
    \E i \in 1..Len(mutations) :
        \/ mutations[i].addedNodes > 5
        \/ mutations[i].removedNodes > 5
        \/ mutations[i].tagName = "ARTICLE"
        \/ mutations[i].tagName = "MAIN"

\* the timer left pending
keepTimeout(timers, id) == timers

\* clearTimeout(id) on the timers pending
clearTimeout(timers, id) == SelectSeq(timers, LAMBDA t : t.id # id)

\* setTimeout(callback, delay): the callback holds the mutations of the
\* observer callback that set it
setTimeout(timers, id, mutations, delay) ==
    Append(timers, [id |-> id, due |-> now + delay, mutations |-> mutations])

\* history of a burst, the callbacks less than the delay apart: how many
\* they are, how many timers fired in it, whether one of its mutations touched five nodes or
\* more or an article or main element, whether one of its callbacks held a
\* change the code calls significant
NoBurst == [callbacks |-> 0, fired |-> 0, touched |-> FALSE, significant |-> FALSE]

\* history of the timer callback that ran last: when, when the last
\* mutation before it was observed, whether it sent the message
NoFire == [at |-> 0, last |-> 0, sent |-> FALSE, touched |-> FALSE, done |-> FALSE]

\* no content script
NoObserver ==
    [url |-> Null, debounceTimer |-> 0, timers |-> <<>>, sent |-> 0, logged |-> 0,
     callbacks |-> 0, last |-> 0, burst |-> NoBurst, fire |-> NoFire]

\* observePageChanges called in the page (lines 388-389, 411-415)
observePageChanges(url) == [NoObserver EXCEPT !.url = url]

touches(mutations) ==
    \E i \in 1..Len(mutations) :
        \/ mutations[i].addedNodes + mutations[i].removedNodes >= 5
        \/ mutations[i].tagName \in {"ARTICLE", "MAIN"}

\* what the watcher leaves alone
WatcherFrame ==
    UNCHANGED <<storSession, storMessages, storKey, activeUrl, panel, state, status,
                setupHidden, input, domStreaming, inits, sends, api, nextId, cmds,
                events, reopened, extractedContent, elfEnabled, extensionState,
                badge, handlers, scripts, seen, reply, hashed, document, pageData>>

\* the callback of the MutationObserver (lines 391-410): the timer pending
\* is cleared and a new one set
Mutated(mutations) ==
    /\ observer.url # Null
    /\ observer.callbacks < MaxCallbacks
    /\ LET id == observer.callbacks + 1
           cleared == IF observer.debounceTimer # 0
                      THEN clearTimeout(observer.timers, observer.debounceTimer)
                      ELSE observer.timers
           burst == IF observer.callbacks = 0 \/ now - observer.last >= DebounceDelay
                    THEN NoBurst ELSE observer.burst
       IN observer' = [observer EXCEPT
              !.debounceTimer = id,
              !.timers = setTimeout(cleared, id, mutations, DebounceDelay),
              !.callbacks = id,
              !.last = now,
              !.burst = [burst EXCEPT
                            !.callbacks = @ + 1,
                            !.touched = burst.touched \/ touches(mutations),
                            !.significant = burst.significant
                                            \/ significantChange(mutations)]]
    /\ now' = now
    /\ WatcherFrame

\* time passes
Tick ==
    /\ now + TickLength <= MaxTime
    /\ now' = now + TickLength
    /\ observer' = observer
    /\ WatcherFrame

\* the callback of a timer that is due (lines 395-409): on a significant
\* change CONTENT_UPDATED is sent to the worker
Timeout(k) ==
    /\ k \in 1..Len(observer.timers)
    /\ observer.timers[k].due <= now
    /\ LET significant == significantChange(observer.timers[k].mutations)
       IN observer' = [observer EXCEPT
              !.timers = Remove(observer.timers, k),
              !.sent = IF significant THEN @ + 1 ELSE @,
              !.burst.fired = @ + 1,
              !.fire = [at |-> now, last |-> observer.last, sent |-> significant,
                        touched |-> observer.burst.touched, done |-> TRUE]]
    /\ now' = now
    /\ WatcherFrame

\* the worker's onMessage, CONTENT_UPDATED: handleContentUpdated logs the
\* id of the tab (background.js lines 78-81, 166-169)
handleContentUpdated ==
    /\ observer.logged < observer.sent
    /\ observer' = [observer EXCEPT !.logged = @ + 1]
    /\ now' = now
    /\ WatcherFrame

----------------------------------------------------------------------------
(* The content script: extractPageData (src/content/content.js).  A text   *)
(* is the sequence of its runs: a code unit and how many times it is       *)
(* repeated, neighbouring runs of different code units, no run empty.      *)

MAX_CONTENT_LENGTH == 50000

Run(c, n) == [c |-> c, n |-> n]

\* the text of a sequence of runs: empty runs dropped, neighbours of one
\* code unit joined
RECURSIVE canon(_)
canon(runs) ==
    IF runs = <<>> THEN <<>>
    ELSE LET h == Head(runs)
             rest == canon(Tail(runs))
         IN IF h.n = 0 THEN rest
            ELSE IF rest # <<>> /\ rest[1].c = h.c
                 THEN <<Run(h.c, h.n + rest[1].n)>> \o Tail(rest)
                 ELSE <<h>> \o rest

\* a string literal, from its code units, no two neighbours the same
Str(units) == [i \in 1..Len(units) |-> Run(units[i], 1)]

\* a + b: the last run of a and the first of b joined when of one code unit
concat(a, b) ==
    IF a = <<>> THEN b
    ELSE IF b = <<>> THEN a
    ELSE IF a[Len(a)].c = b[1].c
         THEN SubSeq(a, 1, Len(a) - 1) \o <<Run(b[1].c, a[Len(a)].n + b[1].n)>> \o Tail(b)
         ELSE a \o b

\* text.length
RECURSIVE length(_)
length(text) == IF text = <<>> THEN 0 ELSE Head(text).n + length(Tail(text))

\* text.substring(0, end)
RECURSIVE substring(_, _)
substring(text, end) ==
    IF text = <<>> \/ end <= 0 THEN <<>>
    ELSE IF Head(text).n >= end THEN <<Run(Head(text).c, end)>>
         ELSE <<Head(text)>> \o substring(Tail(text), end - Head(text).n)

\* text.lastIndexOf(c): the index, from 0, of the last c, or -1
RECURSIVE lastIndexOf(_, _)
lastIndexOf(text, c) ==
    IF text = <<>> THEN -1
    ELSE IF text[Len(text)].c = c THEN length(text) - 1
         ELSE lastIndexOf(SubSeq(text, 1, Len(text) - 1), c)

TAB == 9
LF == 10
CR == 13
SPACE == 32
PERIOD == 46

\* what String.prototype.trim strips: WhiteSpace and LineTerminator
isWhiteSpace(c) ==
    \/ c \in {9, 10, 11, 12, 13, 32, 160, 5760, 8232, 8233, 8239, 8287, 12288, 65279}
    \/ c \in 8192..8202

\* text.replace(/c/g, d) for single code units
replaceAll(text, c, d) ==
    canon([i \in 1..Len(text) |-> IF text[i].c = c THEN Run(d, text[i].n) ELSE text[i]])

\* text.replace(/\r\n/g, '\n'): the CR before an LF goes
replaceCRLF(text) ==
    canon([i \in 1..Len(text) |->
              IF text[i].c = CR /\ i < Len(text) /\ text[i + 1].c = LF
              THEN Run(CR, text[i].n - 1) ELSE text[i]])

\* text.replace(regexp, replacement) for /c{least,}/g: a run of at least
\* `least` c becomes `many` of them
collapse(text, c, least, many) ==
    [i \in 1..Len(text) |->
        IF text[i].c = c /\ text[i].n >= least THEN Run(c, many) ELSE text[i]]

\* text.trim(), trimStart and trimEnd in turn
lineTrim(text) ==
    LET inner == {i \in 1..Len(text) : ~isWhiteSpace(text[i].c)}
    IN IF inner = {} THEN <<>>
       ELSE SubSeq(text, CHOOSE i \in inner : \A j \in inner : i <= j,
                         CHOOSE i \in inner : \A j \in inner : i >= j)

\* n empty lines
EmptyLines(n) == [i \in 1..n |-> <<>>]

\* text.split('\n'): the lines, the empty ones among them
RECURSIVE split(_)
split(text) ==
    IF text = <<>> THEN << <<>> >>
    ELSE LET h == Head(text)
             rest == split(Tail(text))
         IN IF h.c = LF
            THEN << <<>> >> \o EmptyLines(h.n - 1) \o rest
            ELSE << <<h>> \o Head(rest) >> \o Tail(rest)

\* lines.join(sep)
RECURSIVE join(_, _)
join(lines, sep) ==
    IF lines = <<>> THEN <<>>
    ELSE IF Len(lines) = 1 THEN lines[1]
         ELSE concat(concat(lines[1], sep), join(Tail(lines), sep))

\* lines.map(f)
trimAll(lines) == [i \in 1..Len(lines) |-> lineTrim(lines[i])]

\* runs of spaces left as they are
keepSpaces(text) == text

\* .replace(/ {2,}/g, ' ') (line 218)
collapseSpaces(text) == collapse(text, SPACE, 2, 1)

\* the clean-up of whitespace (lines 214-224)
normalize(text) ==
    LET tabs == replaceAll(text, TAB, SPACE)
        crlf == replaceCRLF(tabs)
        cr == replaceAll(crlf, CR, LF)
        spaces == collapseSpaces(cr)
        newlines == collapse(spaces, LF, 3, 2)
        lines == SelectSeq(trimAll(split(newlines)), LAMBDA line : length(line) > 0)
    IN lineTrim(join(lines, Str(<<LF>>)))

\* lines 229-232: back to the last period, if it lies far enough in the cut
sentence(cut, lastPeriod) ==
    IF lastPeriod > MAX_CONTENT_LENGTH - 500
    THEN substring(cut, lastPeriod + 1)
    ELSE cut

\* the limit of the content length (lines 227-233)
limitContent(text) ==
    IF length(text) > MAX_CONTENT_LENGTH
    THEN LET cut == substring(text, MAX_CONTENT_LENGTH)
         IN sentence(cut, lastIndexOf(cut, PERIOD))
    ELSE text

\* extractCleanContent (lines 199-240), textContent being the text of the
\* cleaned element
extractCleanContent(textContent) == limitContent(normalize(textContent))

\* extractImageAlts (lines 129-141), extractCodeBlocks (lines 147-159): the
\* texts trimmed, those of a length within the limits kept, the first `most`
extractTexts(texts, least, below, most) ==
    LET kept == SelectSeq([i \in 1..Len(texts) |-> lineTrim(texts[i])],
                          LAMBDA t : length(t) > least /\ length(t) < below)
    IN SubSeq(kept, 1, IF Len(kept) < most THEN Len(kept) ELSE most)

ImagesHeader == concat(Str(<<LF>>), Str(<<10, 91, 73, 109, 97, 103, 101, 115, 32, 111, 110, 32, 116, 104, 105, 115, 32, 112, 97, 103, 101, 58, 93, 10>>))
CodeHeader == concat(Str(<<LF>>), Str(<<10, 91, 67, 111, 100, 101, 32, 101, 120, 97, 109, 112, 108, 101, 115, 32, 111, 110, 32, 116, 104, 105, 115, 32, 112, 97, 103, 101, 58, 93, 10>>))
CodeSeparator == Str(<<10, 45, 45, 45, 10>>)

\* the sections joined, whatever their length
joinSections(full) == full

\* lines 267-270: the sections joined, cut to the maximal length
cutSections(full) ==
    IF length(full) > MAX_CONTENT_LENGTH
    THEN substring(full, MAX_CONTENT_LENGTH)
    ELSE full

\* extractStructuredContent (lines 246-273)
extractStructuredContent(doc) ==
    LET mainContent == extractCleanContent(doc.text)
        imageAlts == extractTexts(doc.alts, 10, 200, 20)
        codeBlocks == extractTexts(doc.codes, 20, 2000, 10)
        images == IF Len(imageAlts) > 0
                  THEN concat(ImagesHeader, join(imageAlts, Str(<<LF>>)))
                  ELSE <<>>
        codes == IF Len(codeBlocks) > 0
                 THEN concat(CodeHeader,
                             join(SubSeq(codeBlocks, 1, IF Len(codeBlocks) < 5
                                                        THEN Len(codeBlocks) ELSE 5),
                                  CodeSeparator))
                 ELSE <<>>
    IN cutSections(concat(concat(mainContent, images), codes))

\* extractPageData (lines 279-296): of the record, content and contentLength;
\* history: the text after the clean-up of whitespace, and what
\* extractCleanContent returned
extractPageData(doc) ==
    LET content == extractStructuredContent(doc)
    IN [content |-> content, contentLength |-> length(content),
        normalized |-> normalize(doc.text), clean |-> extractCleanContent(doc.text),
        done |-> TRUE]

----------------------------------------------------------------------------
(* The popup and the life of the panel's document *)

\* popup.js clearData, confirmed (lines 261-291): the record of the active
\* tab is deleted from extractedContent and the two keys of the tab are
\* removed (the popup's document lives only while the tab it was opened
\* over stays in front)
PopupClearData ==
    /\ Event
    /\ activeUrl # Null
    /\ extractedContent' = delete(extractedContent, activeUrl)
    /\ storSession' = [storSession EXCEPT ![KeyOf[activeUrl]] = NoSession]
    /\ storMessages' = [storMessages EXCEPT ![KeyOf[activeUrl]] = <<>>]
    /\ reopened' = NotReopened
    /\ UNCHANGED <<storKey, activeUrl, panel, state, status, setupHidden, input,
                   domStreaming, inits, sends, api, nextId, cmds, elfEnabled,
                   extensionState, badge, handlers, scripts, now, seen, reply,
                   utilities>>

\* the side panel is opened: the script runs, init() awaits loadSettings (lines 66-70)
OpenPanel ==
    /\ panel = "closed"
    /\ UNCHANGED <<extension, utilities>>
    /\ panel' = "loading"
    /\ reopened' = IF activeUrl = Null THEN NotReopened
                   ELSE [quiet |-> TRUE,
                         session |-> storSession[KeyOf[activeUrl]],
                         messages |-> storMessages[KeyOf[activeUrl]],
                         issued |-> {},
                         afterReset |-> reopened.afterReset,
                         refreshed |-> Null]
    /\ UNCHANGED <<storSession, storMessages, storKey, activeUrl, state, status,
                   setupHidden, input, domStreaming, inits, sends, api, nextId,
                   cmds, events>>

\* loadSettings resolved, and the rest of init() (lines 174-199, 72-78)
LoadSettings ==
    /\ panel = "loading"
    /\ UNCHANGED <<extension, utilities>>
    /\ panel' = "open"
    /\ LET key == IF storKey # NoKey THEN storKey ELSE state.openaiKey IN
       /\ state' = [state EXCEPT !.openaiKey = key]
       /\ IF key = Null
          THEN /\ setupHidden' = FALSE
               /\ UNCHANGED <<inits, status>>
          ELSE /\ setupHidden' = TRUE
               /\ CallInitialize
    /\ UNCHANGED <<nextId, storSession, storMessages, storKey, activeUrl, input,
                   domStreaming, sends, api, cmds, events, reopened>>

\* the side panel is closed: its document, and every activation in it, is gone
ClosePanel ==
    /\ Event
    /\ UNCHANGED <<extension, utilities>>
    /\ panel # "closed"
    /\ panel' = "closed"
    /\ state' = InitialState
    /\ status' = "none"
    /\ setupHidden' = TRUE
    /\ input' = <<>>
    /\ domStreaming' = 0
    /\ inits' = <<>>
    /\ sends' = <<>>
    /\ cmds' = <<>>
    /\ reopened' = [NotReopened EXCEPT !.afterReset = reopened.afterReset]
    /\ UNCHANGED <<storSession, storMessages, storKey, activeUrl, api, nextId>>

\* the user moves to another tab or page while the panel is closed
Browse(u) ==
    /\ Event
    /\ UNCHANGED <<extension, utilities>>
    /\ panel = "closed"
    /\ activeUrl # u
    /\ activeUrl' = u
    /\ UNCHANGED <<storSession, storMessages, storKey, panel, state, status,
                   setupHidden, input, domStreaming, inits, sends, api, nextId,
                   cmds, reopened>>

----------------------------------------------------------------------------
(* The life-cycle specification *)

\* the worker as loadState leaves it with the extension enabled, no request
\* to the content script answered yet
NotSeen == [restart |-> "none", answer |-> "none"]

\* no utility function applied
NotHashed == [url |-> Null, panel |-> Null, popup |-> Null, done |-> FALSE]
NoDocument == [text |-> <<>>, alts |-> <<>>, codes |-> <<>>]
NoPageData == [content |-> <<>>, contentLength |-> 0, normalized |-> <<>>,
               clean |-> <<>>, done |-> FALSE]

Enabled ==
    /\ hashed = NotHashed
    /\ document = NoDocument
    /\ pageData = NoPageData
    /\ observer = NoObserver
    /\ elfEnabled = "true"
    /\ extensionState = Started
    /\ badge = ""
    /\ handlers = <<>>
    /\ scripts = <<>>
    /\ now = 1
    /\ seen = NotSeen
    /\ reply = NoReply

\* storage after an earlier life of the panel: a conversation on PageA
\* (its session bootstrapped, one question answered)
EarlierSession == Session(ContentId(1), AssistantId(2), ThreadId(2))
EarlierLog == <<Message("user", <<"q">>, PageA), Message("assistant", <<"a">>, PageA)>>

Fresh ==
    /\ storSession = [k \in Keys |-> NoSession]
    /\ storMessages = [k \in Keys |-> <<>>]
    /\ extractedContent = <<>>
    /\ nextId = 1

Conversed ==
    /\ storSession = [k \in Keys |-> IF k = KeyOf[PageA] THEN EarlierSession ELSE NoSession]
    /\ storMessages = [k \in Keys |-> IF k = KeyOf[PageA] THEN EarlierLog ELSE <<>>]
    /\ extractedContent = <<Entry(PageA, 1)>>
    /\ nextId = 3

Init ==
    /\ Fresh \/ Conversed
    /\ storKey \in {NoKey, SK}
    /\ activeUrl = PageA
    /\ panel = "closed"
    /\ state = InitialState
    /\ status = "none"
    /\ setupHidden = TRUE
    /\ input = <<>>
    /\ domStreaming = 0
    /\ inits = <<>>
    /\ sends = <<>>
    /\ api = IdleApi
    /\ cmds = <<>>
    /\ events = 0
    /\ reopened = NotReopened
    /\ Enabled

Next ==
    \/ \E i \in 1..Len(inits) : InitQuery(i)
    \/ \E i \in 1..Len(inits) : InitSession(i)
    \/ \E i \in 1..Len(inits) : InitMessages(i)
    \/ \E i \in 1..Len(inits) : InitContent(i)
    \/ \E i \in 1..Len(inits) : InitStore(i)
    \/ \E i \in 1..Len(inits) : InitCreate(i)
    \/ \E i \in 1..Len(inits) : InitPersist(i)
    \/ \E j \in 1..Len(sends) : SendResponse(j)
    \/ \E j \in 1..Len(sends) : SendRead(j, PlainChunks(sends[j]))
    \/ \E t \in InputTexts : Submit(t)
    \/ QuickAction
    \/ \E u \in TabUrls : TabActivated(u)
    \/ TabUpdated
    \/ RefreshContext
    \/ \E c \in 1..Len(cmds) : RefreshQuery(c)
    \/ \E c \in 1..Len(cmds) : RefreshResume(c)
    \/ ClearConversation
    \/ \E c \in 1..Len(cmds) : ClearResume(c)
    \/ ResetAllData
    \/ \E c \in 1..Len(cmds) : ResetResume(c)
    \/ SaveKeyFromSetup
    \/ SaveOpenaiKey
    \/ PopupClearData
    \/ OpenPanel
    \/ LoadSettings
    \/ ClosePanel
    \/ \E u \in TabUrls : Browse(u)

Spec == Init /\ [][Next]_vars

----------------------------------------------------------------------------
(* The specification of the panel under tab events: it is opened, tabs are *)
(* activated and pages loaded, messages are submitted; nothing is cleared  *)

NextTabs ==
    \/ OpenPanel
    \/ LoadSettings
    \/ \E i \in 1..Len(inits) : InitQuery(i)
    \/ \E i \in 1..Len(inits) : InitSession(i)
    \/ \E i \in 1..Len(inits) : InitMessages(i)
    \/ \E i \in 1..Len(inits) : InitContent(i)
    \/ \E i \in 1..Len(inits) : InitStore(i)
    \/ \E i \in 1..Len(inits) : InitCreate(i)
    \/ \E i \in 1..Len(inits) : InitPersist(i)
    \/ \E u \in TabUrls : TabActivated(u)
    \/ TabUpdated
    \/ \E t \in InputTexts : Submit(t)
    \/ \E j \in 1..Len(sends) : SendResponse(j)
    \/ \E j \in 1..Len(sends) : SendRead(j, PlainChunks(sends[j]))

SpecTabs == Init /\ [][NextTabs]_vars

----------------------------------------------------------------------------
(* The specification of the popup's "clear page data" beside the panel:    *)
(* PageA has a session and a log from an earlier conversation              *)

OlderLog ==
    <<Message("user", <<"earlier">>, PageA), Message("assistant", <<"answer">>, PageA)>>

InitPopup ==
    /\ storSession = [k \in Keys |-> IF k = KeyOf[PageA] THEN EarlierSession ELSE NoSession]
    /\ storMessages = [k \in Keys |-> IF k = KeyOf[PageA] THEN OlderLog ELSE <<>>]
    /\ extractedContent = <<Entry(PageA, 1)>>
    /\ nextId = 3
    /\ storKey = SK
    /\ activeUrl = PageA
    /\ panel = "closed"
    /\ state = InitialState
    /\ status = "none"
    /\ setupHidden = TRUE
    /\ input = <<>>
    /\ domStreaming = 0
    /\ inits = <<>>
    /\ sends = <<>>
    /\ api = IdleApi
    /\ cmds = <<>>
    /\ events = 0
    /\ reopened = NotReopened
    /\ Enabled

NextPopup ==
    \/ OpenPanel
    \/ LoadSettings
    \/ \E i \in 1..Len(inits) : InitQuery(i)
    \/ \E i \in 1..Len(inits) : InitSession(i)
    \/ \E i \in 1..Len(inits) : InitMessages(i)
    \/ \E i \in 1..Len(inits) : InitContent(i)
    \/ \E i \in 1..Len(inits) : InitStore(i)
    \/ \E i \in 1..Len(inits) : InitCreate(i)
    \/ \E i \in 1..Len(inits) : InitPersist(i)
    \/ \E t \in InputTexts : Submit(t)
    \/ \E j \in 1..Len(sends) : SendResponse(j)
    \/ \E j \in 1..Len(sends) : SendRead(j, PlainChunks(sends[j]))
    \/ PopupClearData

SpecPopup == InitPopup /\ [][NextPopup]_vars

----------------------------------------------------------------------------
(* The specification of the panel beside the enabled flag: the flag is on  *)
(* or off when the panel is opened, and is switched in the popup           *)

InitFlag ==
    /\ Fresh \/ Conversed
    /\ storKey = SK
    /\ activeUrl = PageA
    /\ panel = "closed"
    /\ state = InitialState
    /\ status = "none"
    /\ setupHidden = TRUE
    /\ input = <<>>
    /\ domStreaming = 0
    /\ inits = <<>>
    /\ sends = <<>>
    /\ api = IdleApi
    /\ cmds = <<>>
    /\ events = 0
    /\ reopened = NotReopened
    /\ elfEnabled \in {"true", "false"}
    /\ extensionState = [enabled |-> elfEnabled # "false"]
    /\ badge = updateBadge(elfEnabled # "false")
    /\ handlers = <<>>
    /\ scripts = <<>>
    /\ now = 1
    /\ seen = NotSeen
    /\ reply = NoReply
    /\ hashed = NotHashed
    /\ document = NoDocument
    /\ pageData = NoPageData
    /\ observer = NoObserver

NextFlag ==
    \/ OpenPanel
    \/ LoadSettings
    \/ \E i \in 1..Len(inits) : InitQuery(i)
    \/ \E i \in 1..Len(inits) : InitSession(i)
    \/ \E i \in 1..Len(inits) : InitMessages(i)
    \/ \E i \in 1..Len(inits) : InitContent(i)
    \/ \E i \in 1..Len(inits) : InitStore(i)
    \/ \E i \in 1..Len(inits) : InitCreate(i)
    \/ \E i \in 1..Len(inits) : InitPersist(i)
    \/ \E u \in TabUrls : TabActivated(u)
    \/ RefreshContext
    \/ \E c \in 1..Len(cmds) : RefreshQuery(c)
    \/ \E c \in 1..Len(cmds) : RefreshResume(c)
    \/ \E enabled \in BOOLEAN : StateChanged(enabled)
    \/ \E k \in 1..Len(handlers) : StateChangeSet(k)

SpecFlag == InitFlag /\ [][NextFlag]_vars

----------------------------------------------------------------------------
(* The stream specification: one exchange, from the await of fetch on,     *)
(* with a body that arrives in any pieces                                  *)

StreamLines ==
    {TextFrame(<<"a">>), TextFrame(<<"<">>), DoneFrame, ErrorFrame, HeadPart, TailPart}

\* what one read can deliver: one line or two
StreamChunks(send) ==
    IF send.reads < MaxReads
    THEN {<<l>> : l \in StreamLines} \cup {<<l1, l2>> : l1, l2 \in StreamLines}
    ELSE {}

Question == Message("user", <<"q">>, PageA)

\* the panel on PageA, its session bootstrapped, the first question "q"
\* submitted and its fetch pending
InitStream ==
    /\ storSession = [k \in Keys |-> IF k = KeyOf[PageA] THEN EarlierSession ELSE NoSession]
    /\ storMessages = [k \in Keys |-> IF k = KeyOf[PageA] THEN <<Question>> ELSE <<>>]
    /\ storKey = SK
    /\ activeUrl = PageA
    /\ panel = "open"
    /\ state = [openaiKey |-> SK, contentId |-> ContentId(1),
                assistantId |-> AssistantId(2), threadId |-> ThreadId(2),
                currentPageUrl |-> PageA, isProcessing |-> TRUE,
                isInitialized |-> TRUE, messages |-> <<Question>>]
    /\ status = "processing"
    /\ setupHidden = TRUE
    /\ input = <<>>
    /\ domStreaming = 1
    /\ inits = <<>>
    /\ sends = <<[pc |-> "fetch", page |-> PageA, threadId |-> ThreadId(2),
                 full |-> <<>>, shown |-> <<>>, elAttached |-> TRUE,
                 elStreaming |-> TRUE, reads |-> 0, got |-> <<>>, last |-> <<>>]>>
    /\ api = IdleApi
    /\ nextId = 3
    /\ cmds = <<>>
    /\ events = 1
    /\ reopened = NotReopened
    /\ extractedContent = <<Entry(PageA, 1)>>
    /\ Enabled

NextStream ==
    \/ \E j \in 1..Len(sends) : SendResponse(j)
    \/ \E j \in 1..Len(sends) : SendRead(j, StreamChunks(sends[j]))

SpecStream == InitStream /\ [][NextStream]_vars

\* the fetch settles, and every read of the body settles: with a chunk,
\* with the end of the body or with a failure
FairStream ==
    /\ WF_vars(\E j \in 1..Len(sends) : SendResponse(j))
    /\ WF_vars(\E j \in 1..Len(sends) : SendRead(j, StreamChunks(sends[j])))

SpecStreamFair == SpecStream /\ FairStream

----------------------------------------------------------------------------
(* The specification of one call of apiRequest *)

NextApi ==
    \/ ApiCall
    \/ ApiFetched
    \/ ApiSleep

SpecApi == Init /\ [][NextApi]_vars

----------------------------------------------------------------------------
(* The specification of one call of apiRequest in an open panel, the key   *)
(* cleared in the settings at any moment                                   *)

InitCredential ==
    /\ Fresh
    /\ storKey \in {NoKey, SK}
    /\ activeUrl = PageA
    /\ panel = "open"
    /\ state = [InitialState EXCEPT !.openaiKey = storKey]
    /\ status = "none"
    /\ setupHidden = (storKey # NoKey)
    /\ input = <<>>
    /\ domStreaming = 0
    /\ inits = <<>>
    /\ sends = <<>>
    /\ api = IdleApi
    /\ cmds = <<>>
    /\ events = 0
    /\ reopened = NotReopened
    /\ Enabled

NextCredential ==
    \/ ApiCall
    \/ ApiFetched
    \/ ApiSleep
    \/ SaveOpenaiKey

SpecCredential == InitCredential /\ [][NextCredential]_vars

----------------------------------------------------------------------------
(* The specification of hashString: the panel and the popup make their     *)
(* keys of the URL of the active tab                                       *)

MaxUrlLen == 6

\* code units URLs are made of: "a", "/" and the largest one
UrlUnits == {97, 47, 65535}
HashUrls == UNION {[1..n -> UrlUnits] : n \in 0..MaxUrlLen}

\* what the panel and the popup leave alone when they compute their keys
HashFrame ==
    UNCHANGED <<storSession, storMessages, storKey, activeUrl, panel, state, status,
                setupHidden, input, domStreaming, inits, sends, api, nextId, cmds,
                events, reopened, extension, document, pageData, observer>>

\* the panel computes the key of its session_ and messages_ entries (lines
\* 251, 624), the popup the key of the entries it removes (popup.js lines 274-275)
ComputeKeys ==
    /\ ~hashed.done
    /\ hashed' = [url |-> activeUrl, panel |-> hashString(activeUrl),
                  popup |-> popupHashString(activeUrl), done |-> TRUE]
    /\ HashFrame

\* another tab comes to the front
NextTab(url) ==
    /\ hashed.done
    /\ activeUrl' = url
    /\ hashed' = NotHashed
    /\ UNCHANGED <<storSession, storMessages, storKey, panel, state, status,
                   setupHidden, input, domStreaming, inits, sends, api, nextId, cmds,
                   events, reopened, extension, document, pageData, observer>>

InitHash ==
    /\ Fresh
    /\ storKey = SK
    /\ activeUrl \in HashUrls
    /\ panel = "closed"
    /\ state = InitialState
    /\ status = "none"
    /\ setupHidden = TRUE
    /\ input = <<>>
    /\ domStreaming = 0
    /\ inits = <<>>
    /\ sends = <<>>
    /\ api = IdleApi
    /\ cmds = <<>>
    /\ events = 0
    /\ reopened = NotReopened
    /\ Enabled

NextHash ==
    \/ ComputeKeys
    \/ \E url \in HashUrls : NextTab(url)

SpecHash == InitHash /\ [][NextHash]_vars

----------------------------------------------------------------------------
(* The specification of extractPageData: one page, extracted once *)

MaxRuns == 4

\* short texts of whitespace and letters: tab, LF, CR, space, "a", no-break space
ShortUnits == {TAB, LF, CR, SPACE, 97, 160}
ShortTexts ==
    {[i \in 1..Len(t) |-> Run(t[i][1], t[i][2])] :
        t \in {u \in UNION {[1..n -> ShortUnits \X {1, 3}] : n \in 0..MaxRuns} :
                  \A i \in 1..(Len(u) - 1) : u[i][1] # u[i + 1][1]}}

\* long texts: letters, a period or none near the place of the cut, a
\* character outside the basic plane (the surrogates D83D DE00) or none at
\* the place of the cut
LongTexts ==
    {canon(<<Run(97, MAX_CONTENT_LENGTH - back), Run(PERIOD, period), Run(97, more),
             Run(55357, pair), Run(56832, pair), Run(97, rest)>>) :
        back \in 499..502, period \in {0, 1}, more \in {0, 498, 499, 500, 501},
        pair \in {0, 1}, rest \in {0, 2, 600}}

Documents ==
    {[text |-> text, alts |-> <<>>, codes |-> <<>>] : text \in ShortTexts}
    \cup {[text |-> text, alts |-> alts, codes |-> codes] :
             text \in LongTexts,
             alts \in {<<>>, << <<Run(120, 11)>> >>, << <<Run(120, 10)>> >>},
             codes \in {<<>>, << <<Run(99, 21)>> >>}}

\* extractPageData runs in the page
ExtractPageData ==
    /\ ~pageData.done
    /\ pageData' = extractPageData(document)
    /\ UNCHANGED <<storSession, storMessages, storKey, activeUrl, panel, state, status,
                   setupHidden, input, domStreaming, inits, sends, api, nextId, cmds,
                   events, reopened, extension, hashed, document, observer>>

InitExtract ==
    /\ Fresh
    /\ storKey = SK
    /\ activeUrl = PageA
    /\ panel = "closed"
    /\ state = InitialState
    /\ status = "none"
    /\ setupHidden = TRUE
    /\ input = <<>>
    /\ domStreaming = 0
    /\ inits = <<>>
    /\ sends = <<>>
    /\ api = IdleApi
    /\ cmds = <<>>
    /\ events = 0
    /\ reopened = NotReopened
    /\ elfEnabled = "true"
    /\ extensionState = Started
    /\ badge = ""
    /\ handlers = <<>>
    /\ scripts = <<>>
    /\ now = 1
    /\ seen = NotSeen
    /\ reply = NoReply
    /\ hashed = NotHashed
    /\ document \in Documents
    /\ pageData = NoPageData
    /\ observer = NoObserver

NextExtract == ExtractPageData

SpecExtract == InitExtract /\ [][NextExtract]_vars

----------------------------------------------------------------------------
(* The specification of the background worker and the content script *)

\* extractedContent after Site(1) .. Site(n) were extracted in turn and
\* then the first `again` of them once more
Visited(n, again) ==
    [i \in 1..n |-> Entry(Site(i), IF i <= again THEN n + i ELSE i)]

\* what CONTENT_EXTRACTED messages carry: no URL, a page in the store, new pages
ExtractedUrls == {Null, Site(1), Site(MAX_STORED_PAGES + 1), Site(MAX_STORED_PAGES + 2)}

\* the worker running, its state loaded, the store at the cap or one below
\* it, the panel closed
InitBackground ==
    /\ storSession = [k \in Keys |-> NoSession]
    /\ storMessages = [k \in Keys |-> <<>>]
    /\ storKey = SK
    /\ activeUrl = PageA
    /\ panel = "closed"
    /\ state = InitialState
    /\ status = "none"
    /\ setupHidden = TRUE
    /\ input = <<>>
    /\ domStreaming = 0
    /\ inits = <<>>
    /\ sends = <<>>
    /\ api = IdleApi
    /\ nextId = 1
    /\ cmds = <<>>
    /\ events = 0
    /\ reopened = NotReopened
    /\ extractedContent \in {Visited(MAX_STORED_PAGES, 0), Visited(MAX_STORED_PAGES, 2),
                             Visited(MAX_STORED_PAGES - 1, 0)}
    /\ elfEnabled \in {"true", "false"}
    /\ extensionState = [enabled |-> elfEnabled # "false"]
    /\ badge = updateBadge(elfEnabled # "false")
    /\ handlers = <<>>
    /\ scripts = <<>>
    /\ now = 2 * MAX_STORED_PAGES
    /\ seen = NotSeen
    /\ reply = NoReply
    /\ hashed = NotHashed
    /\ document = NoDocument
    /\ pageData = NoPageData
    /\ observer = NoObserver

NextBackground ==
    \/ \E url \in ExtractedUrls : ContentExtracted(url)
    \/ \E k \in 1..Len(handlers) : ExtractedGet(k)
    \/ \E k \in 1..Len(handlers) : ExtractedSet(k)
    \/ \E enabled \in BOOLEAN : StateChanged(enabled)
    \/ \E k \in 1..Len(handlers) : StateChangeSet(k)
    \/ GetState
    \/ Restart
    \/ \E k \in 1..Len(handlers) : LoadState(k)
    \/ Installed
    \/ \E k \in 1..Len(handlers) : InstalledSet(k)
    \/ \E url \in ScriptUrls : TriggerExtraction(url)
    \/ \E s \in 1..Len(scripts) : ExtractionEnabled(s)
    \/ \E s \in 1..Len(scripts) : ExtractionSent(s)
    \/ \E url \in ScriptUrls : GetPageContent(url)
    \/ PopupClearData

SpecBackground == InitBackground /\ [][NextBackground]_vars

----------------------------------------------------------------------------
(* The specification of the mutation watcher of one page *)

\* the page is loaded and, when the extension is enabled and the page is
\* not an internal one, its record stored by the extraction run on load;
\* observePageChanges has been called (content.js lines 419-431)
InitWatcher ==
    /\ storSession = [k \in Keys |-> NoSession]
    /\ storMessages = [k \in Keys |-> <<>>]
    /\ storKey = SK
    /\ activeUrl \in ScriptUrls
    /\ panel = "closed"
    /\ state = InitialState
    /\ status = "none"
    /\ setupHidden = TRUE
    /\ input = <<>>
    /\ domStreaming = 0
    /\ inits = <<>>
    /\ sends = <<>>
    /\ api = IdleApi
    /\ nextId = 1
    /\ cmds = <<>>
    /\ events = 0
    /\ reopened = NotReopened
    /\ elfEnabled \in {"true", "false"}
    /\ extractedContent = IF elfEnabled = "true" /\ ~isInternal(activeUrl)
                          THEN <<Entry(activeUrl, 0)>> ELSE <<>>
    /\ extensionState = [enabled |-> elfEnabled # "false"]
    /\ badge = updateBadge(elfEnabled # "false")
    /\ handlers = <<>>
    /\ scripts = <<>>
    /\ now = TickLength
    /\ seen = NotSeen
    /\ reply = NoReply
    /\ hashed = NotHashed
    /\ document = NoDocument
    /\ pageData = NoPageData
    /\ observer = observePageChanges(activeUrl)

NextWatcher ==
    \/ \E mutations \in Batches : Mutated(mutations)
    \/ Tick
    \/ \E k \in 1..Len(observer.timers) : Timeout(k)
    \/ handleContentUpdated

SpecWatcher == InitWatcher /\ [][NextWatcher]_vars

\* a timer that is due runs, a message that was sent is delivered
FairWatcher ==
    /\ WF_vars(\E k \in 1..Len(observer.timers) : Timeout(k))
    /\ WF_vars(handleContentUpdated)

SpecWatcherFair == SpecWatcher /\ FairWatcher

----------------------------------------------------------------------------
(* Properties of the life-cycle specification *)

\* a step of the one activation of sendMessage, taken when the panel has
\* moved on to another page than the one the send was submitted on
StaleSendStep ==
    /\ Len(sends) = 1
    /\ sends' # sends
    /\ inits' = inits /\ cmds' = cmds /\ events' = events
    /\ state.currentPageUrl # sends[1].page

\* C1: a response that arrives after the active page changed is stale and is
\* not used: a step of a send submitted on another page than the current one
\* appends nothing to the in-memory message list and persists nothing.
C1_StaleResponseNotUsed ==
    [][StaleSendStep => state'.messages = state.messages /\ storMessages' = storMessages]_vars

\* C3: while a streamed send is active (isProcessing) every event the panel
\* handles, a submit among them, starts no request, adds no entry to the
\* in-memory or to a persisted log and does not clear the input text; and at
\* most one chat stream request is in flight at any time.
C3_SubmitRefusedWhileProcessing ==
    [][/\ Len(sends') <= 1
       /\ (state.isProcessing /\ events' = events + 1 /\ panel' # "closed") =>
            /\ sends' = sends
            /\ state'.messages = state.messages
            /\ \A k \in Keys : storMessages'[k] \in {storMessages[k], <<>>}
            /\ (input' = <<>> => input = <<>>)]_vars

\* a submit has been refused while a stream was active: its text is still
\* in the message box
C3_Witness ==
    /\ Len(sends) = 1
    /\ state.isProcessing
    /\ input # <<>>
    /\ trim(input) # <<>>

\* the panel was opened on a page that had a session, init() has run to its
\* end and nothing else has happened since
ReopenedOnSession ==
    /\ panel = "open"
    /\ inits = <<>>
    /\ reopened.quiet
    /\ reopened.session # NoSession

RoundTrip ==
    /\ Session(state.contentId, state.assistantId, state.threadId) = reopened.session
    /\ state.messages = reopened.messages
    /\ reopened.issued = {}

C5_SessionImmutable ==
    [][\A k \in Keys : storSession[k] # NoSession =>
          storSession'[k] \in {storSession[k], NoSession}]_vars

\* C6: in every storage state, a key that holds a non-empty message log has
\* a session.
C6_LogHasSession ==
    \A k \in Keys : storMessages[k] # <<>> => storSession[k] # NoSession

----------------------------------------------------------------------------
(* Properties of the stream specification *)

IsText(line) == WellFormed(line) /\ line.json.type = "text"

\* the contents of the text frames among lines, concatenated in their order
RECURSIVE TextOf(_)
TextOf(lines) ==
    IF lines = <<>> THEN <<>>
    ELSE LET front == SubSeq(lines, 1, Len(lines) - 1)
             line == lines[Len(lines)]
         IN IF IsText(line) THEN TextOf(front) \o line.json.content ELSE TextOf(front)

\* one assistant entry for each done frame among lines, holding the text of
\* the frames before it
RECURSIVE AnswersOf(_, _)
AnswersOf(lines, page) ==
    IF lines = <<>> THEN <<>>
    ELSE LET front == SubSeq(lines, 1, Len(lines) - 1)
         IN IF lines[Len(lines)] = DoneFrame
            THEN Append(AnswersOf(front, page), Message("assistant", TextOf(front), page))
            ELSE AnswersOf(front, page)

\* C2: an error frame aborts the exchange as a failure (the element is
\* removed, an error entry is appended, the status becomes error), so no
\* exchange is still going on with an error frame behind it.
C2_ErrorFrameAborts ==
    \A j \in 1..Len(sends) : \A k \in 1..Len(sends[j].got) : sends[j].got[k] # ErrorFrame

\* C7: text chunks are applied in arrival order: while a stream is read the
\* text so far is the concatenation of the contents of the text frames
\* received, the rendered message is that text formatted, and the assistant
\* entries, in memory and persisted, hold for each done frame the
\* concatenation of the text frames before it.
C7_ChunksInArrivalOrder ==
    \A j \in 1..Len(sends) :
        LET send == sends[j] IN
        /\ send.full = TextOf(send.got)
        /\ send.shown = formatMessageContent(TextOf(send.got))
        /\ state.messages = <<Question>> \o AnswersOf(send.got, send.page)
        /\ storMessages[KeyOf[send.page]] = state.messages

\* a stream whose two text frames came in separate reads and whose done
\* frame finalized the answer "a<"
C7_Witness ==
    \E j \in 1..Len(sends) :
        /\ sends[j].reads >= 2
        /\ sends[j].full = <<"a", "<">>
        /\ ~sends[j].elStreaming
        /\ Len(state.messages) >= 2
        /\ state.messages[Len(state.messages)] = Message("assistant", <<"a", "<">>, PageA)
        /\ sends[j].last[1] \in {TextFrame(<<"<">>), DoneFrame}

\* send j has taken one more chunk in this step
ReadStep(j) ==
    /\ Len(sends') = Len(sends)
    /\ sends[j].pc = "read"
    /\ sends'[j].reads = sends[j].reads + 1

\* C8: a line that is no well-formed frame is dropped: a chunk has the
\* effect its well-formed frames alone would have, every one of them
\* applied, and the stream goes on.
C8_MalformedFramesDropped ==
    [][\A j \in 1..Len(sends) : ReadStep(j) =>
          LET chunk == sends'[j].last
              r == processLines(Reader(state, storMessages, domStreaming, sends[j]),
                                SelectSeq(chunk, WellFormed))
          IN /\ sends'[j].pc = "read"
             /\ sends'[j].full = r.send.full
             /\ sends'[j].shown = r.send.shown
             /\ sends'[j].elStreaming = r.send.elStreaming
             /\ state' = r.st
             /\ storMessages' = r.stor
             /\ domStreaming' = r.dom
             /\ status' = status]_vars

\* a stream that has dropped a cut-off frame and applied a text frame after it
C8_Witness ==
    \E j \in 1..Len(sends) :
        /\ sends[j].pc = "read"
        /\ \E k \in 1..Len(sends[j].got) :
             /\ sends[j].got[k] = HeadPart
             /\ \E n \in (k + 1)..Len(sends[j].got) : IsText(sends[j].got[n])
        /\ sends[j].full = TextOf(sends[j].got)
        /\ sends[j].full # <<>>

----------------------------------------------------------------------------
(* Properties of the specification of apiRequest *)

\* C9: a further attempt is made only after a transport failure, and an
\* attempt that received a response with a non-success status ends the call
\* with the error surfaced.
C9_RetryOnlyAfterTransportFailure ==
    \A k \in 1..Len(api.log) :
        /\ (k < Len(api.log) \/ api.pc = "sleep") => api.log[k] = "transport"
        /\ api.log[k] \in {"rejectedWithMessage", "rejectedBare"} => api.pc = "thrown"

\* how a call ends: with the body of the first attempt that succeeds, or,
\* none succeeding, with the error of its last attempt
ApiOutcome ==
    /\ api.pc # "undefined"
    /\ \A k \in 1..Len(api.log) :
         api.log[k] = "ok" => k = Len(api.log) /\ api.pc = "returned"
    /\ api.pc = "returned" => api.log # <<>> /\ api.log[Len(api.log)] = "ok"
    /\ api.pc = "thrown" =>
         api.log # <<>> /\ api.error = ErrorMessage(api.log[Len(api.log)])
    /\ Len(api.log) = RETRY_ATTEMPTS + 1 => api.pc \in {"returned", "thrown"}
    /\ (\A k \in 1..Len(api.log) : api.log[k] = "transport")
         /\ Len(api.log) = RETRY_ATTEMPTS + 1 => api.pc = "thrown"

\* C10 (as stated): one call issues at most 3 HTTP attempts in total; if all
\* fail by transport failure it ends by surfacing the last error, and it
\* returns the body of the first successful attempt.
C10_AtMostThreeAttempts == Len(api.log) <= 3 /\ ApiOutcome

\* C10 (amended): one call issues at most RETRY_ATTEMPTS + 1 = 4 HTTP
\* attempts in total, the first and three retries; if all fail it ends by
\* surfacing the last error, after the fourth when all fail by transport
\* failure, and it returns the body of the first successful attempt.
C10_AtMostFourAttempts == Len(api.log) <= RETRY_ATTEMPTS + 1 /\ ApiOutcome

\* a call that gave up after four transport failures
C10_Witness ==
    /\ api.pc = "thrown"
    /\ api.log = <<"transport", "transport", "transport", "transport">>
    /\ api.error = <<"Failed to fetch">>

\* C21: every request apiRequest sends carries the X-OpenAI-Key header with
\* the key held in memory exactly when that key is not empty, and goes out
\* without the header when no key is set.
C21_HeaderFollowsCredential ==
    \A k \in 1..Len(api.sent) : api.sent[k].header = api.sent[k].key

----------------------------------------------------------------------------
(* Properties of the life-cycle specification: bootstrap, failure, reset *)

\* activation i of initializeForCurrentPage takes this step
InitStep(i) ==
    /\ events' = events /\ cmds' = cmds
    /\ \/ inits' = Remove(inits, i)
       \/ Len(inits') = Len(inits) /\ inits'[i] # inits[i]

InitEnded(i) == inits' = Remove(inits, i)

\* C11: bootstrapping follows the order content request, store-content,
\* create-assistant, persist, Ready.  Without page content the activation
\* ends in Error and requests nothing; create-assistant is requested when
\* store-content has returned, with the contentId it returned; a session is
\* written to storage by the step in which create-assistant returned and by
\* no other, holding the identifiers that call returned; Ready follows the
\* write; every failure ends the activation in Error with nothing persisted.
C11_BootstrapOrder ==
    [][/\ \A i \in 1..Len(inits) : InitStep(i) =>
            LET a == inits[i] IN
            /\ a.pc = "content" =>
                 \/ InitEnded(i) /\ status' = "error" /\ nextId' = nextId
                                 /\ storSession' = storSession
                 \/ ~InitEnded(i) /\ inits'[i].pc = "store" /\ inits'[i].asked = Null
                                  /\ storSession' = storSession
            /\ a.pc = "store" =>
                 \/ InitEnded(i) /\ status' = "error" /\ storSession' = storSession
                 \/ ~InitEnded(i) /\ inits'[i].pc = "create"
                                  /\ inits'[i].stored # Null
                                  /\ inits'[i].asked = inits'[i].stored
                                  /\ storSession' = storSession
            /\ a.pc = "create" =>
                 \/ InitEnded(i) /\ status' = "error" /\ storSession' = storSession
                 \/ ~InitEnded(i) /\ inits'[i].pc = "persist"
                                  /\ storSession'[KeyOf[a.url]] # NoSession
                                  /\ storSession'[KeyOf[a.url]].threadId = state'.threadId
                                  /\ storSession'[KeyOf[a.url]].assistantId = state'.assistantId
            /\ a.pc = "persist" =>
                 /\ InitEnded(i) /\ status' = "connected" /\ state'.isInitialized
                 /\ storSession' = storSession
       /\ \A k \in Keys :
            (storSession'[k] # storSession[k] /\ storSession'[k] # NoSession) =>
                \E i \in 1..Len(inits) :
                    /\ inits[i].pc = "create" /\ KeyOf[inits[i].url] = k
                    /\ Len(inits') = Len(inits) /\ inits'[i].pc = "persist"]_vars

\* a bootstrap has come through: its session is written and Ready is next
C11_Witness ==
    \E i \in 1..Len(inits) :
        /\ inits[i].pc = "persist"
        /\ inits[i].asked = inits[i].stored
        /\ inits[i].stored # Null
        /\ storSession[KeyOf[inits[i].url]] # NoSession

\* the send j ends in this step as a failure: the catch block has run
FailStep(j) ==
    /\ sends' = Remove(sends, j)
    /\ events' = events /\ inits' = inits /\ cmds' = cmds
    /\ status' = "error"

Ids(st) == Session(st.contentId, st.assistantId, st.threadId)

\* C12: a failed send does not destroy the session: the step in which a send
\* fails leaves the identifiers in memory and in storage as they were and
\* leaves isProcessing false; and when the panel still holds the session the
\* send was submitted in, a submit is accepted afterwards, on the same thread.
C12_FailedSendKeepsSession ==
    [][\A j \in 1..Len(sends) : FailStep(j) =>
          /\ Ids(state') = Ids(state)
          /\ storSession' = storSession
          /\ ~state'.isProcessing
          /\ (state.isInitialized /\ state.threadId = sends[j].threadId) =>
               /\ Accepts(state', QuickPrompt)
               /\ state'.threadId = sends[j].threadId]_vars

\* a send has failed and the panel is ready for the next submit
C12_Witness ==
    /\ sends = <<>>
    /\ status = "error"
    /\ state.messages # <<>>
    /\ state.messages[Len(state.messages)].role = "error"
    /\ state.messages[Len(state.messages)].page = state.currentPageUrl
    /\ Accepts(state, QuickPrompt)
    /\ storSession[KeyOf[state.currentPageUrl]] = Ids(state)

\* the panel was reopened after a life that ended with "reset all data", and
\* init() has run to its end
ReopenedAfterReset ==
    /\ panel = "open"
    /\ inits = <<>>
    /\ reopened.quiet
    /\ reopened.afterReset

\* C13: after "reset all data", the reopened panel initializes the current
\* page from scratch: when its initialization has settled it has failed, or
\* it is Ready and has requested store-content and create-assistant anew.
C13_ReopenAfterResetBootstraps ==
    ReopenedAfterReset =>
        \/ status = "error"
        \/ /\ status = "connected"
           /\ state.isInitialized
           /\ {"store", "create"} \subseteq reopened.issued

\* the panel shows Ready
Ready == status = "connected" /\ state.isInitialized

\* C14: after "refresh context" has removed the keys of the active page and
\* reset the state in memory, the page is Ready again, with a thread to chat
\* on, only through a new store-content and a new create-assistant request,
\* and never with the identifiers of the session that was removed.
C14_RefreshRebootstraps ==
    (/\ reopened.refreshed # Null
     /\ cmds = <<>>
     /\ state.currentPageUrl = reopened.refreshed
     /\ Ready
     /\ state.threadId # Null)
    => /\ {"store", "create"} \subseteq reopened.issued
       /\ Ids(state) # reopened.session

\* C20: with the panel open on a tab that is not accessible (no URL or a
\* chrome:// URL) and no initialization or command still running, a submit
\* is refused, whatever page was initialized before.
C20_DisabledOnInaccessibleTab ==
    (/\ panel = "open"
     /\ inits = <<>> /\ cmds = <<>>
     /\ (activeUrl = Null \/ startsWith(activeUrl, ChromePrefix)))
    => ~Accepts(state, QuickPrompt)

----------------------------------------------------------------------------
(* Properties of hashString *)

\* C22: the key is a function of the URL alone, the 32-bit wrap-around
\* rolling hash (hash * 31 + code unit) rendered in base 36, and the popup's
\* hashString returns for every URL the key the panel's returns, so that
\* the popup removes the entries the panel wrote.
C22_SameKey ==
    hashed.done =>
        /\ hashed.popup = hashed.panel
        /\ parse36(hashed.panel) = rolling(hashed.url)
        /\ hashed.panel = toString36(rolling(hashed.url))

\* a URL whose hash has wrapped around to a negative number
C22_Witness ==
    /\ hashed.done
    /\ Len(hashed.url) = MaxUrlLen
    /\ rolling(hashed.url) < 0
    /\ hashed.popup = hashed.panel

----------------------------------------------------------------------------
(* Properties of extractPageData *)

\* C23: the content of the record extractPageData returns is at most 50,000
\* code units long, and contentLength is its length.
C23_ContentWithinLimit ==
    pageData.done =>
        /\ length(pageData.content) <= MAX_CONTENT_LENGTH
        /\ pageData.contentLength = length(pageData.content)

\* a page whose main text filled the limit and whose image section was cut off
C23_Witness ==
    /\ pageData.done
    /\ length(pageData.clean) = MAX_CONTENT_LENGTH
    /\ document.alts = << <<Run(120, 11)>> >>
    /\ pageData.contentLength = MAX_CONTENT_LENGTH

\* the first 50,000 code units of the text cleaned of whitespace
Cut == substring(pageData.normalized, MAX_CONTENT_LENGTH)

\* C24: when the main text is longer than 50,000 code units and there is a
\* period among the last 500 of the first 50,000 (at one of the indices
\* 49,500 to 49,999), the text extractCleanContent returns ends just after
\* the last such period.
C24_EndsAtSentenceBoundary ==
    (/\ pageData.done
     /\ length(pageData.normalized) > MAX_CONTENT_LENGTH
     /\ lastIndexOf(Cut, PERIOD) >= MAX_CONTENT_LENGTH - 500)
    => pageData.clean = substring(Cut, lastIndexOf(Cut, PERIOD) + 1)

\* the text ends with the first half of a surrogate pair
EndsInHighSurrogate(text) ==
    text # <<>> /\ text[Len(text)].c \in 55296..56319

\* C25: the content never ends with a high surrogate whose low surrogate
\* the cut took away (the texts of the pages hold whole pairs only).
C25_NoSplitSurrogatePair ==
    pageData.done => ~EndsInHighSurrogate(pageData.content)

\* the lines of a text, as the runs between its line feeds
HasRun(text, c, least) == \E i \in 1..Len(text) : text[i].c = c /\ text[i].n >= least

\* C26: the text cleaned of whitespace holds no tab and no CR, no two spaces
\* in a row, no empty line, no line that begins or ends with whitespace, its
\* lines joined by single line feeds; cleaned once more it stays as it is.
C26_WhitespaceNormalized ==
    pageData.done =>
        LET text == pageData.normalized IN
        /\ ~HasRun(text, TAB, 1) /\ ~HasRun(text, CR, 1)
        /\ ~HasRun(text, SPACE, 2)
        /\ ~HasRun(text, LF, 2)
        /\ text # <<>> => ~isWhiteSpace(text[1].c) /\ ~isWhiteSpace(text[Len(text)].c)
        /\ \A i \in 1..Len(text) :
              text[i].c = LF => ~isWhiteSpace(text[i - 1].c) /\ ~isWhiteSpace(text[i + 1].c)
        /\ normalize(text) = text

\* a text with a CR LF, a tab beside a space and a blank line, cleaned
C26_Witness ==
    /\ pageData.done
    /\ document.text = <<Run(97, 1), Run(TAB, 1), Run(SPACE, 3), Run(97, 3)>>
    /\ pageData.normalized = <<Run(97, 1), Run(SPACE, 1), Run(97, 3)>>

----------------------------------------------------------------------------
(* Properties of the background worker and the content script *)

Entries(content) == {content[i] : i \in 1..Len(content)}
Urls(content) == {content[i].url : i \in 1..Len(content)}

\* handleContentExtracted k writes the object it has built
RecordStep(k) ==
    /\ handlers[k].fn = "handleContentExtracted" /\ handlers[k].pc = "set"
    /\ handlers' = Remove(handlers, k)
    /\ extractedContent' = handlers[k].content
    /\ events' = events

\* C15: when a handler records a page that is not in the store while the
\* store holds 50 pages (the store it read being the store it writes over),
\* exactly one entry is removed, one whose extractedAt no other entry is
\* older than, and the other 49 entries and the new record are there
\* afterwards, 50 in all.
C15_EvictsTheOldest ==
    [][\A k \in 1..Len(handlers) :
          (/\ RecordStep(k)
           /\ handlers[k].read = extractedContent
           /\ Len(extractedContent) = MAX_STORED_PAGES
           /\ handlers[k].url \notin Urls(extractedContent))
          => \E old \in Entries(extractedContent) :
               /\ \A e \in Entries(extractedContent) : old.extractedAt <= e.extractedAt
               /\ Entries(extractedContent) \ {old} \subseteq Entries(extractedContent')
               /\ Urls(extractedContent') =
                      (Urls(extractedContent) \ {old.url}) \cup {handlers[k].url}
               /\ Len(extractedContent') = MAX_STORED_PAGES]_vars

\* the 51st page recorded over the store whose oldest entry is its third
C15_Witness ==
    /\ handlers = <<>>
    /\ Urls(extractedContent) =
           {Site(i) : i \in 1..(MAX_STORED_PAGES + 1)} \ {Site(3)}

\* C16: whatever the order in which the handlers of CONTENT_EXTRACTED read,
\* merge and write, the extractedContent object in storage never holds more
\* than 50 URLs.
C16_CapHolds ==
    /\ Len(extractedContent) <= MAX_STORED_PAGES
    /\ Cardinality(Urls(extractedContent)) = Len(extractedContent)

\* a handler about to write a new page over a full store that another
\* handler wrote a new page to after this one had read it
C16_Witness ==
    \E k \in 1..Len(handlers) :
        /\ handlers[k].fn = "handleContentExtracted" /\ handlers[k].pc = "set"
        /\ Len(handlers[k].read) = MAX_STORED_PAGES
        /\ Len(extractedContent) = MAX_STORED_PAGES
        /\ handlers[k].url \notin Urls(extractedContent)
        /\ Urls(extractedContent) \ Urls(handlers[k].read) # {}

\* C17: after the worker restarted with elfEnabled false in storage (and no
\* setEnabled or install event since), no GET_STATE is answered with
\* enabled: true, not even one handled before loadState has finished.
C17_StateSurvivesRestart ==
    seen.restart = "false" => seen.answer # "true"

InProgress(fn) == \E k \in 1..Len(handlers) : handlers[k].fn = fn

\* C18: while no handleStateChange, no loadState and no onInstalled listener
\* is in progress, the badge text is "" if elfEnabled in storage is enabled
\* (not false) and "OFF" if it is false.
C18_BadgeReflectsFlag ==
    (~InProgress("handleStateChange") /\ ~InProgress("loadState")
       /\ ~InProgress("onInstalled"))
    => badge = updateBadge(elfEnabled # "false")

\* C19: an answer to TRIGGER_EXTRACTION or GET_PAGE_CONTENT carries no page
\* record if elfEnabled in storage was false when the request came and is
\* false at the answer, or if the page's URL is an internal one.
C19_NoRecordWhenDisabled ==
    (/\ reply.op # "none"
     /\ \/ reply.asked = "false" /\ reply.flag = "false"
        \/ isInternal(reply.url))
    => reply.data = Null

----------------------------------------------------------------------------
(* Properties of the mutation watcher *)

\* the record of the watched page was stamped when its last mutation was
\* observed, or later
RecordedSince(at) ==
    \E i \in 1..Len(extractedContent) :
        /\ extractedContent[i].url = observer.url
        /\ extractedContent[i].extractedAt >= at

\* a significant change was observed on an enabled page that is not an
\* internal one, and no mutation for the delay of the debounce
QuietAfterSignificantChange ==
    /\ elfEnabled = "true"
    /\ ~isInternal(observer.url)
    /\ observer.burst.significant
    /\ now >= observer.last + DebounceDelay

\* C27: when a significant mutation was observed on an enabled page that is
\* not an internal one and no mutation followed for 2 seconds, a record of
\* the page stamped after the mutation is eventually in the store of the
\* worker.
C27_MutationLeadsToRecord ==
    QuietAfterSignificantChange ~> RecordedSince(observer.last)

\* C28: in a burst of callbacks at most one timer callback runs; it runs
\* only when 2 seconds have passed since the last mutation; it sends the
\* message only when a mutation of the burst touched at least 5 nodes or
\* had an article or main element as its target.
C28_Debounced ==
    /\ observer.burst.fired <= 1
    /\ Len(observer.timers) <= 1
    /\ observer.timers # <<>> => observer.timers[1].due = observer.last + DebounceDelay
    /\ observer.fire.done =>
          /\ observer.fire.at >= observer.fire.last + DebounceDelay
          /\ observer.fire.sent => observer.fire.touched

\* a burst of two callbacks, the timer of the second having run and sent
\* the message
C28_Witness ==
    /\ observer.burst.callbacks = 2
    /\ observer.burst.fired = 1
    /\ observer.fire.done /\ observer.fire.sent

----------------------------------------------------------------------------
(* Properties of a send, its reads settling *)

\* sendMessage has returned
Completed == sends = <<>> /\ ~state.isProcessing

\* C29: the submit that was accepted eventually completes: isProcessing is
\* false again and the log holds, after the user entry, exactly one further
\* entry, an assistant entry or an error entry.
C29_SubmitCompletes ==
    <>(/\ Completed
       /\ Len(state.messages) = Len(<<Question>>) + 1
       /\ state.messages[Len(state.messages)].role \in {"assistant", "error"})

----------------------------------------------------------------------------
(* Properties of clearConversation *)

\* the step clearConversation begins with, and the step it ends with
ClearBegins == cmds' = Append(cmds, "clear")
ClearEnds ==
    /\ panel' # "closed"
    /\ \E c \in 1..Len(cmds) : cmds[c] = "clear" /\ cmds' = Remove(cmds, c)

\* the ids of the session in memory
IdsOf(st) == <<st.contentId, st.assistantId, st.threadId>>

\* C30: when "Clear conversation" has run, the log of the current URL is
\* empty in memory and in storage; the steps of the command leave the ids of
\* the session in memory, the sessions in storage and the logs of the other
\* URLs as they are, and start no initialization and no backend call.
C30_ClearEmptiesTheLogOnly ==
    [][/\ (ClearBegins \/ ClearEnds) =>
            /\ IdsOf(state') = IdsOf(state)
            /\ storSession' = storSession
            /\ \A k \in Keys :
                  k # KeyOf[state.currentPageUrl] => storMessages'[k] = storMessages[k]
            /\ inits' = inits /\ api' = api
       /\ ClearEnds =>
            /\ state'.messages = <<>>
            /\ storMessages'[KeyOf[state'.currentPageUrl]] = <<>>]_vars

----------------------------------------------------------------------------
(* Properties of the panel under tab events *)

\* the session the state object holds
SessionOf(st) == Session(st.contentId, st.assistantId, st.threadId)

\* a message was submitted and accepted in this step
Accepted == Len(sends') = Len(sends) + 1

\* C31: whenever no initializeForCurrentPage is in progress, the ids in
\* memory are all null or those of the session stored for currentPageUrl;
\* and a chat request carries the thread of the session of currentPageUrl.
C31_MemoryAgreesWithStorage ==
    /\ [](inits = <<>> /\ state.currentPageUrl # Null =>
            \/ SessionOf(state) = NoSession
            \/ SessionOf(state) = storSession[KeyOf[state.currentPageUrl]])
    /\ [][Accepted =>
            sends'[Len(sends')].threadId =
                storSession[KeyOf[state.currentPageUrl]].threadId]_vars

\* the i-th call of initializeForCurrentPage got the answer of its
\* create-assistant request in this step and wrote the session
Persists(i) ==
    /\ Len(inits') = Len(inits)
    /\ inits[i].pc = "create" /\ inits'[i].pc = "persist"

\* C32: the session a call of initializeForCurrentPage stores for its page
\* holds the contentId its store-content request returned, and the
\* assistantId and threadId its create-assistant request, made with that
\* contentId, returned.
C32_StoredSessionConsistent ==
    [][\A i \in 1..Len(inits) :
          Persists(i) =>
              /\ inits[i].asked = inits[i].stored
              /\ storSession'[KeyOf[inits[i].url]] =
                     Session(inits[i].stored, AssistantId(nextId), ThreadId(nextId))]_vars

----------------------------------------------------------------------------
(* Properties of the popup's "clear page data" *)

\* the popup has cleared the data of PageA: its record is gone from
\* extractedContent, where nothing but the worker puts it back
ClearedByPopup == \A i \in 1..Len(extractedContent) : extractedContent[i].url # PageA

\* C33: once the popup has cleared the data of a page, storage never holds
\* again a message of the log the page had before.
C33_ClearedLogStaysCleared ==
    ClearedByPopup =>
        \A k \in 1..Len(storMessages[KeyOf[PageA]]) :
            \A o \in 1..Len(OlderLog) : storMessages[KeyOf[PageA]][k] # OlderLog[o]

----------------------------------------------------------------------------
(* Properties of the panel beside the enabled flag *)

\* a call of initializeForCurrentPage got the page content from the content
\* script in this step and sent it in a store-content request
StoreRequested ==
    /\ Len(inits') = Len(inits)
    /\ \E i \in 1..Len(inits) : inits[i].pc = "content" /\ inits'[i].pc = "store"

\* C34: while the stored flag elfEnabled is false the panel issues no
\* store-content request.
C34_NoStoreWhileDisabled ==
    [][elfEnabled = "false" => ~StoreRequested]_vars

\* a request of the initialization leaves the panel: apiRequest is called for
\* store-content (line 278) or for create-assistant (line 290)
InitRequested ==
    /\ Len(inits') = Len(inits)
    /\ \E i \in 1..Len(inits) :
         \/ inits[i].pc = "content" /\ inits'[i].pc = "store"
         \/ inits[i].pc = "store" /\ inits'[i].pc = "create"

\* C35: after "reset all data" the settings in memory agree with storage:
\* once no reset is pending the key in memory is the stored one, and a
\* request of the initialization issued while storage holds no credential
\* carries no X-OpenAI-Key header
C35_ResetKeyNotUsed ==
    /\ [](panel = "open" /\ cmds = <<>> => state.openaiKey = storKey)
    /\ [][InitRequested /\ storKey = NoKey =>
              headersFor(state.openaiKey) = headersFor(NoKey)]_vars

====






